---- MODULE Spec2Model ----
(***************************************************************************)
(* A tiny tractor: the engine state machine (tractor_model.c), the sound   *)
(* manager (sound_manager.c: horn song sequencer and sample generator),    *)
(* the button manager (button_manager.c) and the scheduler (main.c: main   *)
(* loop and interrupt service routines) of the ATtiny85 firmware.          *)
(*                                                                         *)
(* Integers keep the width of the C types: uint8_t fields are reduced      *)
(* modulo 2^8 and uint16_t fields modulo 2^16.  x >> a is x \div 2^a and   *)
(* x << a is x * 2^a.                                                      *)
(***************************************************************************)
EXTENDS Integers, Sequences, FiniteSets, TLC

(***************************************************************************)
(* Bounds of the model.                                                    *)
(***************************************************************************)
\* number of API input calls (ignition, setpoint, Dixie) in one behaviour
MaxCalls == 2
\* the count of consecutive START updates saturates here
MaxHeld == 104
\* number of updates after the last call of a scripted caller
MaxTail == 2
\* number of rising edges of one button in one behaviour
MaxEdges == 2
\* number of ADC values decoded one after the other
MaxDecodes == 2
\* number of calls of the sample generator in one behaviour
MaxSamples == 2
\* number of model-rate blocks of the main loop in one behaviour
MaxModelTicks == 3
\* number of timer firings unanswered or lost in one behaviour
MaxLost == 1
\* number of changes of the PWM duty cycle in one behaviour
MaxDutyChanges == 1
\* number of firings of the timer with the soft PWM on its own: the period
\* cut short by the reset, one whole period and the start of the next
MaxPwmTicks == 130
\* number of updates after the press of the horn button: the Dixie song and
\* two updates more
MaxHornTail == 80
\* number of model-rate blocks of the nominal run: cranking, a Dixie song
\* and a whole horn cycle
MaxNominalBlocks == 540
\* model-rate blocks of the nominal run after which START is released
\* and after which HORN is clicked
NominalStartBlocks == 103
NominalHornBlock == 130

(***************************************************************************)
(* Program constants.                                                      *)
(***************************************************************************)
TRACTOR_STATUS_UPDATE_CYCLE == 40
ENGINE_SPEED_IDLE == 64
ENGINE_SPEED_MIN == 68
ENGINE_SPEED_MAX == 168

IGNITION_OFF == 0
IGNITION_ON == 1
IGNITION_START == 2

ENGINE_OFF == 0
ENGINE_CRANKING == 1
ENGINE_RUNNING == 2

SONG_SINGLE_HONK == 0
SONG_DOUBLE_HONK == 1
SONG_DIXIE == 2
SONG_COUNT == 3

MAX_SONG_SIZE == 30

BUTTON_ON == 0
BUTTON_START == 1
BUTTON_HORN == 2
BUTTON_COUNT == 3

ADC_THRESHOLD_OFF == 23
ADC_THRESHOLD_ON == 63
ADC_THRESHOLD_ON_HORN == 99
ADC_THRESHOLD_ON_START == 186

PWM_DC_MOTOR_MIN == 6
PWM_DC_MOTOR_MAX == 58
ADC_THROTTLE_IDLE == 38
ADC_READ_THROTTLE == 0
ADC_READ_BUTTONS == 1

HORN_NOTE_DURATION == 160 \div TRACTOR_STATUS_UPDATE_CYCLE
HORN_PAUSE_DURATION == 40 \div TRACTOR_STATUS_UPDATE_CYCLE

CRANKING_MINIMUM_TIME == 4000 \div TRACTOR_STATUS_UPDATE_CYCLE
CRANKING_ENGINE_SPEED == (2 * ENGINE_SPEED_IDLE) \div 5
HORN_CYCLE == 16000 \div TRACTOR_STATUS_UPDATE_CYCLE
LED_CYCLE == 3000 \div TRACTOR_STATUS_UPDATE_CYCLE
TRACTOR_MODEL_CYCLE == 8000 \div 25

UINT8 == 2 ^ 8
UINT16 == 2 ^ 16

\* the C operators << and >> on non-negative values
Shl(x, a) == x * (2 ^ a)
Shr(x, a) == x \div (2 ^ a)

(***************************************************************************)
(* The song library.  SONG(...) stores the number of notes and the notes;  *)
(* the rest of the MAX_SONG_SIZE array is zero-initialised.  C index i is  *)
(* position i + 1 of the sequence.                                         *)
(***************************************************************************)
Pad(s) == s \o [i \in 1..(MAX_SONG_SIZE - Len(s)) |-> 0]

SONG(s) == [size |-> Len(s), note |-> Pad(s)]

SONG_LIBRARY ==
    << SONG(<<64, 64, 64>>),
       SONG(<<64, 64, 0, 64, 64>>),
       SONG(<<64, 80, 64, 64, 0, 64, 64, 0, 64, 72, 80, 85,
              96, 96, 0, 96, 96, 0, 96, 96, 0, 80, 80>>) >>

VARIABLES
    tractor,        \* the Tractor structure of the tractor model
    horn,           \* the Horn structure of the sound manager
    led_status,     \* value returned by the last tractor_update_model
    honk,           \* songs started by the last operation (<<>> if none)
    last_op,        \* the last operation, with its argument
    prev,           \* tractor, horn and led_status before the last operation
    held,           \* history: updates so far, all with ignition START
    streak,         \* history: latest updates in a row with ignition START
    released,       \* history: START released early, never START since
    blinks,         \* history: updates returning true in this blink cycle
    steady,         \* history: RUNNING with effects active all this cycle
    calls,          \* number of API input calls so far
    tail,           \* number of updates after the last scripted call
    button,         \* button_level and button_clicked of the button manager
    sample_index,   \* the SampleIndex structure of the sound manager
    wavetable,      \* the arrays ENGINE_RUNNING and TRACTOR_HORN
    result,         \* what the last button or audio call returned
    before,         \* button and sample_index before the last operation
    clickhist,      \* history: rising edges and reported clicks per button
    notehist,       \* history: horn ticks each kind of note was kept
    shared,         \* the volatile variables of main.c
    main,           \* the main loop: its position and update_status_timer
    ports,          \* pwm_timer of the timer ISR, the output pins, the ADC
    schedhist       \* history: writers, timer firings, passes, PWM periods

vars == <<tractor, horn, led_status, honk, last_op, prev, held, streak, released,
          blinks, steady, calls, tail, button, sample_index, wavetable,
          result, before, clickhist, notehist, shared, main, ports,
          schedhist>>

\* the state of the scheduler
scheduler_vars == <<shared, main, ports, schedhist>>

\* the state of the button manager and of the sample generator
peripheral_vars == <<button, sample_index, wavetable, result, before,
                     clickhist, notehist>>

(***************************************************************************)
(* Sound manager: horn song sequencer.                                     *)
(***************************************************************************)
Note(h, i) == h.song.note[i + 1]

\* audio_play_horn_song(song) with the song number reduced, not tested
audio_play_horn_song_any_number(h, song) ==
    [song            |-> SONG_LIBRARY[(song % SONG_COUNT) + 1],
     current_note    |-> 0,
     note_counter    |-> 0,
     index_increment |-> SONG_LIBRARY[(song % SONG_COUNT) + 1].note[1],
     playing         |-> TRUE]

\* mutant: a song requested while another is playing keeps its position
audio_play_horn_song_keeps_position(h, song) ==
    IF song < SONG_COUNT
    THEN [song            |-> SONG_LIBRARY[song + 1],
          current_note    |-> IF h.playing THEN h.current_note ELSE 0,
          note_counter    |-> IF h.playing THEN h.note_counter ELSE 0,
          index_increment |-> SONG_LIBRARY[song + 1].note[1],
          playing         |-> TRUE]
    ELSE h

\* audio_play_horn_song(song) applied to the horn structure h
audio_play_horn_song(h, song) ==
    IF song < SONG_COUNT
    THEN [song            |-> SONG_LIBRARY[song + 1],
          current_note    |-> 0,
          note_counter    |-> 0,
          index_increment |-> SONG_LIBRARY[song + 1].note[1],
          playing         |-> TRUE]
    ELSE h

\* audio_horn_manager() with the two durations exchanged
audio_horn_manager_long_rests(h) ==
    IF h.playing
    THEN LET duration == IF h.index_increment # 0
                         THEN HORN_PAUSE_DURATION ELSE HORN_NOTE_DURATION
             nc       == (h.note_counter + 1) % UINT8
             expired  == nc >= duration
             cn       == IF expired THEN (h.current_note + 1) % UINT8
                         ELSE h.current_note
             h1       == [h EXCEPT !.note_counter = IF expired THEN 0 ELSE nc,
                                   !.current_note = cn,
                                   !.playing = IF expired /\ cn > h.song.size
                                               THEN FALSE ELSE h.playing]
         IN  [h1 EXCEPT !.index_increment = Note(h1, h1.current_note)]
    ELSE h

\* mutant: the song stops when the note index reaches its size (>= for >)
audio_horn_manager_stops_at_size(h) ==
    IF h.playing
    THEN LET duration == IF h.index_increment # 0
                         THEN HORN_NOTE_DURATION ELSE HORN_PAUSE_DURATION
             nc       == (h.note_counter + 1) % UINT8
             expired  == nc >= duration
             cn       == IF expired THEN (h.current_note + 1) % UINT8
                         ELSE h.current_note
             h1       == [h EXCEPT !.note_counter = IF expired THEN 0 ELSE nc,
                                   !.current_note = cn,
                                   !.playing = IF expired /\ cn >= h.song.size
                                               THEN FALSE ELSE h.playing]
         IN  [h1 EXCEPT !.index_increment = Note(h1, h1.current_note)]
    ELSE h

\* audio_horn_manager() applied to the horn structure h
audio_horn_manager(h) ==
    IF h.playing
    THEN LET duration == IF h.index_increment # 0
                         THEN HORN_NOTE_DURATION ELSE HORN_PAUSE_DURATION
             nc       == (h.note_counter + 1) % UINT8
             expired  == nc >= duration
             cn       == IF expired THEN (h.current_note + 1) % UINT8
                         ELSE h.current_note
             h1       == [h EXCEPT !.note_counter = IF expired THEN 0 ELSE nc,
                                   !.current_note = cn,
                                   !.playing = IF expired /\ cn > h.song.size
                                               THEN FALSE ELSE h.playing]
         IN  [h1 EXCEPT !.index_increment = Note(h1, h1.current_note)]
    ELSE h

\* the songs of the sequence q started one after the other on h
PlayAll(h, q) ==
    IF q = <<>> THEN h ELSE audio_play_horn_song(h, q[Len(q)])

\* history of the notes: age is the number of horn ticks the current note
\* has been the current one, rest and sound are the number of ticks the
\* last replaced rest and the last replaced sounding note were kept, ticks
\* is the number of horn ticks of the current song
NotesAfterPlay(n, h, u) ==
    IF u = h THEN n ELSE [n EXCEPT !.age = 0, !.ticks = 0]

NotesAfterTick(n, h, u) ==
    IF ~h.playing THEN n
    ELSE IF u.current_note = h.current_note
         THEN [n EXCEPT !.age = @ + 1, !.ticks = @ + 1]
    ELSE IF h.index_increment = 0
         THEN [n EXCEPT !.age = 0, !.rest = n.age + 1, !.ticks = @ + 1]
         ELSE [n EXCEPT !.age = 0, !.sound = n.age + 1, !.ticks = @ + 1]

(***************************************************************************)
(* Sound manager: sample generator.  The arrays ENGINE_RUNNING and         *)
(* TRACTOR_HORN come from engine_running.h and tractor_horn.h; the model   *)
(* takes them from the variable wavetable, and ENGINE_RUNNING_SIZE and     *)
(* TRACTOR_HORN_SIZE are their lengths.  The fractional part of a phase    *)
(* has ENGINE_BITS bits on the engine track and HORN_BITS on the horn      *)
(* track.  A read of the entry after the last one of an array returns a    *)
(* value the array's declaration decides: the argument past.               *)
(***************************************************************************)
ENGINE_RUNNING_SIZE(w) == Len(w.ENGINE_RUNNING)
TRACTOR_HORN_SIZE(w) == Len(w.TRACTOR_HORN)

\* AVR_PGM_READ_BYTE(table[index])
ReadByte(table, index, past) ==
    IF index < Len(table) THEN table[index + 1] ELSE past

\* index += step; if (index >= length) index -= length;
phase_next_unwrapped(index, step, length) == (index + step) % UINT16

phase_next(index, step, length) ==
    LET i == (index + step) % UINT16
    IN  IF i >= length THEN (i - length) % UINT16 ELSE i

\* the sample chosen from the table for a position and its offset
track_sample(table, index, offset, past) ==
    IF offset < 16 THEN ReadByte(table, index, past)
    ELSE IF offset < 48
         THEN Shr(ReadByte(table, index, past), 1)
              + Shr(ReadByte(table, index + 1, past), 1)
    ELSE ReadByte(table, index + 1, past)

\* the positions of the table read for a position and its offset
track_reads(index, offset) ==
    IF offset < 16 THEN {index}
    ELSE IF offset < 48 THEN {index, index + 1}
    ELSE {index + 1}

\* the engine track of audio_get_next_sample
engine_track_keeps_phase(si, w, engine_speed, past) ==
    LET length == Shl(ENGINE_RUNNING_SIZE(w), 4)
        e      == IF engine_speed # 0
                  THEN phase_next(si.engine, Shr(engine_speed, 2), length)
                  ELSE si.engine
        index  == Shr(e, 4)
        offset == e % 16
    IN  IF engine_speed # 0
        THEN [phase  |-> e,
              sample |-> track_sample(w.ENGINE_RUNNING, index, offset, past),
              reads  |-> track_reads(index, offset)]
        ELSE [phase |-> e, sample |-> 128, reads |-> {}]

engine_track(si, w, engine_speed, past) ==
    LET length == Shl(ENGINE_RUNNING_SIZE(w), 4)
        e      == phase_next(si.engine, Shr(engine_speed, 2), length)
        index  == Shr(e, 4)
        offset == e % 16
    IN  IF engine_speed # 0
        THEN [phase  |-> e,
              sample |-> track_sample(w.ENGINE_RUNNING, index, offset, past),
              reads  |-> track_reads(index, offset)]
        ELSE [phase |-> 0, sample |-> 128, reads |-> {}]

\* the horn track of audio_get_next_sample
horn_track(si, h, w, past) ==
    LET length == Shl(TRACTOR_HORN_SIZE(w), 6)
        p      == phase_next(si.horn, h.index_increment, length)
        index  == Shr(p, 6)
        offset == p % 64
    IN  IF h.playing /\ h.index_increment # 0
        THEN [phase  |-> p,
              sample |-> track_sample(w.TRACTOR_HORN, index, offset, past),
              reads  |-> track_reads(index, offset)]
        ELSE [phase |-> 0, sample |-> 128, reads |-> {}]

\* mutant: the mix is reduced to 8 bits without saturation
mix_wraps(engine_sample, horn_sample) ==
    (engine_sample + horn_sample - 128) % UINT8

\* the mix of the two tracks, saturated between 0 and UINT8_MAX
mix(engine_sample, horn_sample) ==
    LET sample == engine_sample + horn_sample - 128
    IN  IF sample > UINT8 - 1 THEN UINT8 - 1
        ELSE IF sample < 0 THEN 0 ELSE sample

\* audio_get_next_sample(engine_speed): the new sample_index, the value
\* returned, and the two samples and the table positions it went through
audio_get_next_sample(si, h, w, engine_speed, past) ==
    LET e == engine_track(si, w, engine_speed, past)
        t == horn_track(si, h, w, past)
    IN  [sample_index  |-> [engine |-> e.phase, horn |-> t.phase],
         value         |-> mix(e.sample, t.sample),
         engine_sample |-> e.sample,
         horn_sample   |-> t.sample,
         engine_reads  |-> e.reads,
         horn_reads    |-> t.reads]

(***************************************************************************)
(* Tractor model.                                                          *)
(***************************************************************************)

\* the uint32_t intermediate of update_engine_speed(a).  For a 16-bit speed,
\* an 8-bit setpoint and a <= 6 it is at most 65535 * 2^6 + 65280 < 2^31 and
\* (speed << a) - speed is never negative, so the 32-bit arithmetic is exact.
filter_accumulator(speed, setpoint, a) ==
    (Shl(speed, a) - speed) + (Shl(setpoint, 8) % UINT16)

\* mutant: the setpoint is applied without filtering
update_engine_speed_unfiltered(speed, setpoint, a) ==
    Shl(setpoint, 8) % UINT16

\* mutant: the old speed is not subtracted from the accumulator
update_engine_speed_no_subtraction(speed, setpoint, a) ==
    Shr(Shl(speed, a) + (Shl(setpoint, 8) % UINT16), a) % UINT16

\* update_engine_speed(a): the new tractor.engine_speed
update_engine_speed(speed, setpoint, a) ==
    Shr(filter_accumulator(speed, setpoint, a), a) % UINT16

\* tractor_get_engine_speed() for a given filtered speed
tractor_get_engine_speed(speed) == Shr(speed, 8) % UINT8

\* mutant: the LED blinks during the first half of the blink cycle
is_led_on_first_half(speed, counter) ==
    IF tractor_get_engine_speed(speed) >= ENGINE_SPEED_MIN
    THEN (counter % 2 # 0) /\ counter < LED_CYCLE \div 2
    ELSE FALSE

\* mutant: the parity of the blink counter is not tested
is_led_on_no_parity(speed, counter) ==
    IF tractor_get_engine_speed(speed) >= ENGINE_SPEED_MIN
    THEN counter < 12
    ELSE FALSE

\* is_led_on() for a given filtered speed and blink counter
is_led_on(speed, counter) ==
    IF tractor_get_engine_speed(speed) >= ENGINE_SPEED_MIN
    THEN (counter % 2 # 0) /\ counter < 12
    ELSE FALSE

Filter(t, a) ==
    [t EXCEPT !.engine_speed =
        update_engine_speed(t.engine_speed, t.engine_speed_setpoint, a)]

\* tractor_update_model, switch default (ENGINE_OFF)
\* mutant: the speed is filtered before the ignition position is tested
update_off_old_setpoint(t) ==
    LET t1 == Filter(t, 2)
    IN  IF t.ignition_position = IGNITION_START
        THEN [t1 EXCEPT !.status = ENGINE_CRANKING,
                        !.engine_speed_setpoint = CRANKING_ENGINE_SPEED,
                        !.cranking_counter = 0]
        ELSE t1

\* mutant: the speed is filtered only by the update that enters CRANKING
update_off_holds_speed(t) ==
    IF t.ignition_position = IGNITION_START
    THEN Filter([t EXCEPT !.status = ENGINE_CRANKING,
                          !.engine_speed_setpoint = CRANKING_ENGINE_SPEED,
                          !.cranking_counter = 0], 2)
    ELSE t

update_off(t) ==
    LET t1 == IF t.ignition_position = IGNITION_START
              THEN [t EXCEPT !.status = ENGINE_CRANKING,
                             !.engine_speed_setpoint = CRANKING_ENGINE_SPEED,
                             !.cranking_counter = 0]
              ELSE t
    IN  Filter(t1, 2)

\* mutant: the blink counter restarts from 0 when RUNNING is entered
update_cranking_blink_from_zero(t) ==
    LET cc == (t.cranking_counter + 1) % UINT8
        t0 == [t EXCEPT !.cranking_counter = cc]
        t1 == IF cc > CRANKING_MINIMUM_TIME
              THEN [t0 EXCEPT !.status = ENGINE_RUNNING,
                              !.engine_speed_setpoint = ENGINE_SPEED_IDLE,
                              !.horn_counter = 0,
                              !.led_counter = 0]
              ELSE IF t.ignition_position # IGNITION_START
              THEN [t0 EXCEPT !.status = ENGINE_OFF,
                              !.engine_speed_setpoint = 0]
              ELSE t0
    IN  Filter(t1, 4)

\* mutant: the ignition position is tested before the cranking counter
update_cranking_ignition_first(t) ==
    LET cc == (t.cranking_counter + 1) % UINT8
        t0 == [t EXCEPT !.cranking_counter = cc]
        t1 == IF t.ignition_position # IGNITION_START
              THEN [t0 EXCEPT !.status = ENGINE_OFF,
                              !.engine_speed_setpoint = 0]
              ELSE IF cc > CRANKING_MINIMUM_TIME
              THEN [t0 EXCEPT !.status = ENGINE_RUNNING,
                              !.engine_speed_setpoint = ENGINE_SPEED_IDLE,
                              !.horn_counter = 0,
                              !.led_counter = LED_CYCLE]
              ELSE t0
    IN  Filter(t1, 4)

\* mutant: RUNNING is entered one update earlier (>= for >)
update_cranking_one_early(t) ==
    LET cc == (t.cranking_counter + 1) % UINT8
        t0 == [t EXCEPT !.cranking_counter = cc]
        t1 == IF cc >= CRANKING_MINIMUM_TIME
              THEN [t0 EXCEPT !.status = ENGINE_RUNNING,
                              !.engine_speed_setpoint = ENGINE_SPEED_IDLE,
                              !.horn_counter = 0,
                              !.led_counter = LED_CYCLE]
              ELSE IF t.ignition_position # IGNITION_START
              THEN [t0 EXCEPT !.status = ENGINE_OFF,
                              !.engine_speed_setpoint = 0]
              ELSE t0
    IN  Filter(t1, 4)

\* tractor_update_model, case ENGINE_CRANKING
update_cranking(t) ==
    LET cc == (t.cranking_counter + 1) % UINT8
        t0 == [t EXCEPT !.cranking_counter = cc]
        t1 == IF cc > CRANKING_MINIMUM_TIME
              THEN [t0 EXCEPT !.status = ENGINE_RUNNING,
                              !.engine_speed_setpoint = ENGINE_SPEED_IDLE,
                              !.horn_counter = 0,
                              !.led_counter = LED_CYCLE]
              ELSE IF t.ignition_position # IGNITION_START
              THEN [t0 EXCEPT !.status = ENGINE_OFF,
                              !.engine_speed_setpoint = 0]
              ELSE t0
    IN  Filter(t1, 4)

\* mutant: the double honk is started from the half cycle on (>= for ==)
auto_honk_from_half_cycle(hc) ==
    IF hc >= HORN_CYCLE \div 2 THEN <<SONG_DOUBLE_HONK>>
    ELSE IF hc >= HORN_CYCLE THEN <<SONG_SINGLE_HONK>>
    ELSE <<>>

\* the automatic honk of a RUNNING update: the songs it starts, given the
\* incremented horn counter
auto_honk(hc) ==
    IF hc = HORN_CYCLE \div 2 THEN <<SONG_DOUBLE_HONK>>
    ELSE IF hc >= HORN_CYCLE THEN <<SONG_SINGLE_HONK>>
    ELSE <<>>

\* the horn counter left by a RUNNING update with effects active, given the
\* incremented horn counter
horn_counter_next(hc) ==
    IF hc = HORN_CYCLE \div 2 THEN hc
    ELSE IF hc >= HORN_CYCLE THEN 0
    ELSE hc

\* whether a RUNNING update advances the horn timing
effects_active(t) ==
    tractor_get_engine_speed(t.engine_speed) >= ENGINE_SPEED_MIN

\* the songs started by tractor_update_model in tractor state t
update_songs(t) ==
    IF /\ t.status = ENGINE_RUNNING
       /\ t.ignition_position # IGNITION_OFF
       /\ effects_active(t)
    THEN auto_honk((t.horn_counter + 1) % UINT16)
    ELSE <<>>

\* the blink counter after its increment in a RUNNING update
led_counter_next(c) ==
    LET c1 == (c + 1) % UINT8
    IN  IF c1 > LED_CYCLE THEN 0 ELSE c1

\* mutant: RUNNING is left like CRANKING, whenever the ignition is not START
update_running_needs_start(t) ==
    IF t.ignition_position # IGNITION_START
    THEN [t EXCEPT !.status = ENGINE_OFF, !.engine_speed_setpoint = 0]
    ELSE LET t1 == IF effects_active(t)
                   THEN Filter([t EXCEPT !.horn_counter =
                            horn_counter_next((t.horn_counter + 1) % UINT16)],
                            6)
                   ELSE Filter(t, 4)
         IN  [t1 EXCEPT !.led_counter = led_counter_next(t.led_counter)]

\* mutant: the blink counter is reset when RUNNING is left
update_running_resets_blink(t) ==
    IF t.ignition_position = IGNITION_OFF
    THEN [t EXCEPT !.status = ENGINE_OFF, !.engine_speed_setpoint = 0,
                   !.led_counter = 0]
    ELSE LET t1 == IF effects_active(t)
                   THEN Filter([t EXCEPT !.horn_counter =
                            horn_counter_next((t.horn_counter + 1) % UINT16)],
                            6)
                   ELSE Filter(t, 4)
         IN  [t1 EXCEPT !.led_counter = led_counter_next(t.led_counter)]

\* tractor_update_model, case ENGINE_RUNNING
update_running(t) ==
    IF t.ignition_position = IGNITION_OFF
    THEN [t EXCEPT !.status = ENGINE_OFF, !.engine_speed_setpoint = 0]
    ELSE LET t1 == IF effects_active(t)
                   THEN Filter([t EXCEPT !.horn_counter =
                            horn_counter_next((t.horn_counter + 1) % UINT16)],
                            6)
                   ELSE Filter(t, 4)
         IN  [t1 EXCEPT !.led_counter = led_counter_next(t.led_counter)]

\* the switch of tractor_update_model
update_switch(t) ==
    IF t.status = ENGINE_CRANKING THEN update_cranking(t)
    ELSE IF t.status = ENGINE_RUNNING THEN update_running(t)
    ELSE update_off(t)

\* mutant: the status is not tested
set_engine_speed_setpoint_any_status(t, setpoint) ==
    [t EXCEPT !.engine_speed_setpoint =
        IF setpoint > ENGINE_SPEED_MAX THEN ENGINE_SPEED_MAX
        ELSE IF setpoint < ENGINE_SPEED_IDLE THEN ENGINE_SPEED_IDLE
        ELSE setpoint]

\* mutant: low setpoints are not raised to ENGINE_SPEED_IDLE
set_engine_speed_setpoint_no_floor(t, setpoint) ==
    IF t.status # ENGINE_RUNNING THEN t
    ELSE [t EXCEPT !.engine_speed_setpoint =
             IF setpoint > ENGINE_SPEED_MAX THEN ENGINE_SPEED_MAX
             ELSE setpoint]

\* tractor_set_engine_speed_setpoint(setpoint) applied to tractor state t
set_engine_speed_setpoint(t, setpoint) ==
    IF t.status # ENGINE_RUNNING THEN t
    ELSE [t EXCEPT !.engine_speed_setpoint =
             IF setpoint > ENGINE_SPEED_MAX THEN ENGINE_SPEED_MAX
             ELSE IF setpoint < ENGINE_SPEED_IDLE THEN ENGINE_SPEED_IDLE
             ELSE setpoint]

\* mutant: the gate tests the engine status instead of the ignition position
dixie_gate_on_status(t) == t.status # ENGINE_OFF

\* whether tractor_play_dixie_song passes its ignition gate
dixie_gate(t) == t.ignition_position # IGNITION_OFF

(***************************************************************************)
(* History variables, advanced by each update.                             *)
(***************************************************************************)
\* number of updates so far if all of them ran with the ignition at START
\* (saturating at MaxHeld), -1 once an update ran with another position
HeldNext(h, ign) ==
    IF h >= 0 /\ ign = IGNITION_START
    THEN (IF h < MaxHeld THEN h + 1 ELSE h)
    ELSE 0 - 1

\* run is the number of the latest updates that ran in a row with the
\* ignition at START (saturating at MaxHeld), before is run as it was before
\* the last update
StreakNext(k, ign) ==
    [run    |-> IF ign # IGNITION_START THEN 0
                ELSE IF k.run < MaxHeld THEN k.run + 1 ELSE k.run,
     before |-> k.run]

\* START was held for 1 .. CRANKING_MINIMUM_TIME - 1 updates from the initial
\* state and no update has run with the ignition at START since
ReleasedNext(h, r, ign) ==
    IF ign = IGNITION_START THEN FALSE
    ELSE IF h >= 0 THEN (h >= 1 /\ h < CRANKING_MINIMUM_TIME)
    ELSE r

\* the update that took tractor state t to u advanced the blink counter in
\* RUNNING and left the public speed at or above ENGINE_SPEED_MIN
SteadyStep(t, u) ==
    /\ t.status = ENGINE_RUNNING
    /\ u.status = ENGINE_RUNNING
    /\ tractor_get_engine_speed(u.engine_speed) >= ENGINE_SPEED_MIN

\* the update that took t to u began a new blink cycle (the counter wrapped)
Wrapped(t, u) ==
    /\ t.status = ENGINE_RUNNING
    /\ u.status = ENGINE_RUNNING
    /\ u.led_counter = 0

(***************************************************************************)
(* Bit operations on uint8_t values.                                       *)
(***************************************************************************)
BitOf(x, i) == (x \div (2 ^ i)) % 2

\* the uint8_t whose bit i is bit[i]
FromBits(bit) ==
    bit[0] + 2 * bit[1] + 4 * bit[2] + 8 * bit[3]
    + 16 * bit[4] + 32 * bit[5] + 64 * bit[6] + 128 * bit[7]

BitAnd(x, y) == FromBits([i \in 0..7 |-> BitOf(x, i) * BitOf(y, i)])
BitOr(x, y) ==
    FromBits([i \in 0..7 |-> IF BitOf(x, i) + BitOf(y, i) > 0 THEN 1 ELSE 0])
BitNot(x) == FromBits([i \in 0..7 |-> 1 - BitOf(x, i)])

(***************************************************************************)
(* Button manager.                                                         *)
(***************************************************************************)
\* BM(button), as the uint8_t the callers use it for
BM(b) == (2 ^ b) % UINT8

\* the button level button_set_adc_value decodes from the ADC value
button_new_level_flat(adc_value) ==
    IF adc_value <= ADC_THRESHOLD_OFF THEN 0
    ELSE BitOr(BM(BUTTON_ON), BM(BUTTON_START))

button_new_level(adc_value) ==
    IF adc_value <= ADC_THRESHOLD_OFF THEN 0
    ELSE IF adc_value <= ADC_THRESHOLD_ON THEN BM(BUTTON_ON)
    ELSE IF adc_value <= ADC_THRESHOLD_ON_HORN
         THEN BitOr(BM(BUTTON_ON), BM(BUTTON_HORN))
    ELSE IF adc_value <= ADC_THRESHOLD_ON_START
         THEN BitOr(BM(BUTTON_ON), BM(BUTTON_START))
    ELSE BitOr(BitOr(BM(BUTTON_ON), BM(BUTTON_START)), BM(BUTTON_HORN))

\* button_set_adc_value(adc_value) applied to the button state b
button_set_adc_value_overwrites_clicks(b, adc_value) ==
    LET new == button_new_level(adc_value)
    IN  [level   |-> new,
         clicked |-> BitAnd(BitAnd(BitNot(b.level), new),
                            (2 ^ BUTTON_COUNT) - 1)]

button_set_adc_value(b, adc_value) ==
    LET new == button_new_level(adc_value)
    IN  [level   |-> new,
         clicked |-> BitOr(b.clicked,
                           BitAnd(BitAnd(BitNot(b.level), new),
                                  (2 ^ BUTTON_COUNT) - 1))]

\* the value button_is_pressed(id) returns in the button state b
button_is_pressed(b, id) == BitAnd(b.level, BM(id)) # 0

\* the value button_is_clicked(id) returns in the button state b
button_is_clicked(b, id) == BitAnd(b.clicked, BM(id)) # 0

\* the button state b after button_is_clicked(id)
button_clicked_reset_all(b, id) == [b EXCEPT !.clicked = 0]

button_clicked_reset_keeps_flag(b, id) == b

button_clicked_reset(b, id) ==
    [b EXCEPT !.clicked = BitAnd(b.clicked, BitNot(BM(id)))]

\* history of the rising edges: per button, the rising edges so far, the
\* reads of button_is_clicked that returned true so far, and the rising
\* edges since the last read of the button
EdgesAfterSample(h, b, c) ==
    [id \in DOMAIN h |->
        IF ~button_is_pressed(b, id) /\ button_is_pressed(c, id)
        THEN [h[id] EXCEPT !.edges = @ + 1, !.unread = @ + 1]
        ELSE h[id]]

EdgesAfterRead(h, b, id) ==
    [h EXCEPT ![id] = [@ EXCEPT !.clicks = @ + (IF button_is_clicked(b, id)
                                                THEN 1 ELSE 0),
                                !.unread = 0]]

(***************************************************************************)
(* Scheduler: the interrupt service routines and the pieces of the main    *)
(* loop.  The contexts are "main" (the main loop) and "isr" (the interrupt *)
(* service routines).                                                      *)
(***************************************************************************)
SharedVariables ==
    {"update_audio_sample", "output_pwm_duty_cycle", "adc_value_throttle",
     "adc_value_buttons", "adc_mux_selection"}

\* the duty cycle output_set_dc_motor_pwm(engine_speed) stores
\* mutant: the duty cycle is not limited to PWM_DC_MOTOR_MAX
output_set_dc_motor_pwm_unlimited(engine_speed) ==
    IF engine_speed < ENGINE_SPEED_MIN THEN 0
    ELSE (PWM_DC_MOTOR_MIN + Shr(engine_speed - ENGINE_SPEED_IDLE, 1)) % UINT8

output_set_dc_motor_pwm(engine_speed) ==
    IF engine_speed < ENGINE_SPEED_MIN THEN 0
    ELSE LET duty_cycle ==
                 (PWM_DC_MOTOR_MIN
                  + Shr(engine_speed - ENGINE_SPEED_IDLE, 1)) % UINT8
         IN  IF duty_cycle > PWM_DC_MOTOR_MAX THEN PWM_DC_MOTOR_MAX
             ELSE duty_cycle

\* the soft PWM of ISR(TIMER0_COMPA_vect) on the ports p with the duty
\* cycle duty; set tells whether the pin was set high by the invocation
\* mutant: the counter wraps one invocation later (> for >=)
soft_pwm_wraps_late(p, duty) ==
    LET timer   == (p.pwm_timer + 1) % UINT8
        wrapped == timer > 64
        t       == IF wrapped THEN 0 ELSE timer
        set     == wrapped /\ duty > 0
    IN  [pwm_timer |-> t,
         set       |-> set,
         pin       |-> IF t >= duty THEN FALSE
                       ELSE IF set THEN TRUE ELSE p.dc_motor_pin]

\* mutant: the pin is cleared one invocation later (> for >=)
soft_pwm_clears_late(p, duty) ==
    LET timer   == (p.pwm_timer + 1) % UINT8
        wrapped == timer >= 64
        t       == IF wrapped THEN 0 ELSE timer
        set     == wrapped /\ duty > 0
    IN  [pwm_timer |-> t,
         set       |-> set,
         pin       |-> IF t > duty THEN FALSE
                       ELSE IF set THEN TRUE ELSE p.dc_motor_pin]

soft_pwm(p, duty) ==
    LET timer   == (p.pwm_timer + 1) % UINT8
        wrapped == timer >= 64
        t       == IF wrapped THEN 0 ELSE timer
        set     == wrapped /\ duty > 0
    IN  [pwm_timer |-> t,
         set       |-> set,
         pin       |-> IF t >= duty THEN FALSE
                       ELSE IF set THEN TRUE ELSE p.dc_motor_pin]

\* ++update_status_timer >= TRACTOR_MODEL_CYCLE in the main loop
\* mutant: the model-rate block runs one pass later (> for >=)
model_tick_due_late(timer) == (timer + 1) % UINT16 > TRACTOR_MODEL_CYCLE

model_tick_due(timer) == (timer + 1) % UINT16 >= TRACTOR_MODEL_CYCLE

\* the setpoint the main loop requests for a throttle reading
\* mutant: the difference to ADC_THROTTLE_IDLE is reduced to 8 bits
setpoint_request_unsigned(adc_value) ==
    (ENGINE_SPEED_IDLE
     + Shr((adc_value - ADC_THROTTLE_IDLE) % UINT8, 1)) % UINT8

setpoint_request(adc_value) ==
    (ENGINE_SPEED_IDLE + Shr(adc_value - ADC_THROTTLE_IDLE, 1)) % UINT8

\* the ignition position the main loop sets for the button state b
ignition_request(b) ==
    IF button_is_pressed(b, BUTTON_START) THEN IGNITION_START
    ELSE IF button_is_pressed(b, BUTTON_ON) THEN IGNITION_ON
    ELSE IGNITION_OFF

\* history of the writers: the context c has written the shared variables W
Written(h, W, c) ==
    [h EXCEPT !.writers = [v \in SharedVariables |->
                              IF v \in W THEN @[v] \cup {c} ELSE @[v]]]

\* history of the soft PWM: high counts the invocations of the current
\* period that left the pin high; whole tells that the period began with an
\* invocation and that the duty cycle has not changed since
PwmAfterIsr(h, q) ==
    [h EXCEPT !.high  = (IF q.pwm_timer = 0 THEN 0 ELSE @)
                        + (IF q.pin THEN 1 ELSE 0),
              !.whole = IF q.pwm_timer = 0 THEN TRUE ELSE @]

PwmAfterDuty(h, old, new) ==
    IF old = new THEN h ELSE [h EXCEPT !.whole = FALSE]

(***************************************************************************)
(* Inputs of the API calls.                                                *)
(***************************************************************************)
IgnitionPositions == {IGNITION_OFF, IGNITION_ON, IGNITION_START}

\* setpoints requested by the caller: below, at, inside and above the
\* clamping range
SetpointInputs == {0, ENGINE_SPEED_IDLE, 117, ENGINE_SPEED_MAX, 255}

\* song numbers requested by a caller: the three songs, the first number
\* outside the library, and the largest uint8_t
SongInputs == (0..SONG_COUNT) \cup {UINT8 - 1}

\* engine speeds the sample generator is called with: zero, and non-zero
\* speeds that advance the phase by 0, by 15 and by 63
EngineSpeeds == {0, 3, 60, UINT8 - 1}

\* contents of the two arrays: the shortest lengths whose scaled length
\* exceeds every step, and one more
Wavetables ==
    { [ENGINE_RUNNING |-> <<128, 250, 3, 140>>,
       TRACTOR_HORN   |-> <<128, 249>>],
      [ENGINE_RUNNING |-> <<131, 0, 255, 90, 128>>,
       TRACTOR_HORN   |-> <<5, 128, 201>>] }

\* values the ADC converts, levels of the simulator: no button (and the
\* throttle closed), ON and START, ON, START and HORN (and the throttle open)
AdcInputs == {0, 128, 245}

\* values the ADC converts in the nominal run after blocks model-rate
\* blocks: the throttle open, the buttons ON and START, ON and HORN, ON
NominalAdc(mux, blocks) ==
    IF mux = ADC_READ_THROTTLE THEN 245
    ELSE IF blocks <= NominalStartBlocks THEN 128
    ELSE IF blocks = NominalHornBlock THEN 70
    ELSE 56

\* values of the entry after the last one of an array
PastValues == {0, UINT8 - 1}

\* the state after construction, with the arrays w
Start(w) ==
    /\ tractor = [engine_speed |-> 0, horn_counter |-> 0, led_counter |-> 0,
                  status |-> ENGINE_OFF, engine_speed_setpoint |-> 0,
                  ignition_position |-> IGNITION_OFF, cranking_counter |-> 0]
    /\ horn = [song |-> [size |-> 0, note |-> Pad(<<>>)],
               current_note |-> 0, note_counter |-> 0,
               index_increment |-> 0, playing |-> FALSE]
    /\ led_status = FALSE
    /\ honk = <<>>
    /\ last_op = <<"init">>
    /\ prev = [tractor |-> tractor, horn |-> horn, led_status |-> FALSE]
    /\ held = 0
    /\ streak = [run |-> 0, before |-> 0]
    /\ released = FALSE
    /\ blinks = 0
    /\ steady = FALSE
    /\ calls = 0
    /\ tail = 0
    /\ button = [level |-> 0, clicked |-> 0]
    /\ sample_index = [engine |-> 0, horn |-> 0]
    /\ wavetable = w
    /\ result = <<>>
    /\ before = [button |-> button, sample_index |-> sample_index]
    /\ clickhist = [id \in 0..(BUTTON_COUNT - 1) |->
                       [edges |-> 0, clicks |-> 0, unread |-> 0]]
    /\ notehist = [age |-> 0, rest |-> 0, sound |-> 0, ticks |-> 0]
    /\ shared = [update_audio_sample   |-> FALSE,
                 output_pwm_duty_cycle |-> 0,
                 adc_value_throttle    |-> 0,
                 adc_value_buttons     |-> 0,
                 adc_mux_selection     |-> ADC_READ_THROTTLE]
    /\ main = [pc |-> "wait", update_status_timer |-> 0]
    /\ ports = [pwm_timer |-> 0, dc_motor_pin |-> FALSE, led_pin |-> FALSE,
                ocr1b |-> 0, adsc |-> FALSE]
    /\ schedhist = [writers |-> [v \in SharedVariables |-> {}],
                    owed |-> 0, lost |-> 0, fired |-> 0, clears |-> 0,
                    passes |-> 0, samples |-> 0, blocks |-> 0,
                    high |-> 0, whole |-> FALSE]

\* the tractor model does not read the arrays: one content stands for all
Init == Start(CHOOSE w \in Wavetables : Len(w.TRACTOR_HORN) = 2)

\* the sound manager starts with any of the contents
InitAudio == \E w \in Wavetables : Start(w)

Snapshot == [tractor |-> tractor, horn |-> horn, led_status |-> led_status]

(***************************************************************************)
(* The API of the tractor model.  Each operation below is the whole C      *)
(* function; the specifications add the guards that bound the caller.      *)
(***************************************************************************)
\* bool tractor_update_model(void)
UpdateModel ==
    /\ tractor' = update_switch(tractor)
    /\ honk' = update_songs(tractor)
    /\ horn' = audio_horn_manager(PlayAll(horn, honk'))
    /\ led_status' = is_led_on(tractor'.engine_speed, tractor'.led_counter)
    /\ last_op' = <<"update">>
    /\ prev' = Snapshot
    /\ held' = HeldNext(held, tractor.ignition_position)
    /\ streak' = StreakNext(streak, tractor.ignition_position)
    /\ released' = ReleasedNext(held, released, tractor.ignition_position)
    /\ steady' = IF Wrapped(tractor, tractor') THEN SteadyStep(tractor, tractor')
                 ELSE steady /\ SteadyStep(tractor, tractor')
    /\ blinks' = (IF Wrapped(tractor, tractor') THEN 0 ELSE blinks)
                 + (IF led_status' THEN 1 ELSE 0)
    /\ notehist' = NotesAfterTick(
                       NotesAfterPlay(notehist, horn, PlayAll(horn, honk')),
                       PlayAll(horn, honk'), horn')
    /\ UNCHANGED <<button, sample_index, wavetable, result, before,
                   clickhist, scheduler_vars>>

\* void tractor_set_ignition_position(uint8_t position)
SetIgnitionPosition(position) ==
    /\ tractor' = [tractor EXCEPT !.ignition_position = position]
    /\ last_op' = <<"ignition", position>>
    /\ prev' = Snapshot
    /\ honk' = <<>>
    /\ UNCHANGED <<horn, led_status, held, streak, released, blinks, steady>>
    /\ UNCHANGED <<peripheral_vars, scheduler_vars>>

\* void tractor_set_engine_speed_setpoint(uint8_t setpoint)
SetEngineSpeedSetpoint(setpoint) ==
    /\ tractor' = set_engine_speed_setpoint(tractor, setpoint)
    /\ last_op' = <<"setpoint", setpoint>>
    /\ prev' = Snapshot
    /\ honk' = <<>>
    /\ UNCHANGED <<horn, led_status, held, streak, released, blinks, steady>>
    /\ UNCHANGED <<peripheral_vars, scheduler_vars>>

\* void tractor_play_dixie_song(void)
\* mutant: the horn cycle counter is not reset
PlayDixieSong_keeps_counter ==
    /\ IF dixie_gate(tractor)
       THEN /\ honk' = <<SONG_DIXIE>>
            /\ horn' = audio_play_horn_song(horn, SONG_DIXIE)
            /\ UNCHANGED tractor
       ELSE /\ honk' = <<>>
            /\ UNCHANGED <<tractor, horn>>
    /\ notehist' = NotesAfterPlay(notehist, horn, horn')
    /\ last_op' = <<"dixie">>
    /\ prev' = Snapshot
    /\ UNCHANGED <<led_status, held, streak, released, blinks, steady>>
    /\ UNCHANGED <<button, sample_index, wavetable, result, before,
                   clickhist, scheduler_vars>>

PlayDixieSong ==
    /\ IF dixie_gate(tractor)
       THEN /\ tractor' = [tractor EXCEPT !.horn_counter = 0]
            /\ honk' = <<SONG_DIXIE>>
            /\ horn' = audio_play_horn_song(horn, SONG_DIXIE)
       ELSE /\ honk' = <<>>
            /\ UNCHANGED <<tractor, horn>>
    /\ notehist' = NotesAfterPlay(notehist, horn, horn')
    /\ last_op' = <<"dixie">>
    /\ prev' = Snapshot
    /\ UNCHANGED <<led_status, held, streak, released, blinks, steady>>
    /\ UNCHANGED <<button, sample_index, wavetable, result, before,
                   clickhist, scheduler_vars>>

(***************************************************************************)
(* Spec: any caller of the API that makes at most MaxCalls input calls,    *)
(* at any time, between any number of updates.                             *)
(***************************************************************************)
tractor_update_model ==
    /\ UpdateModel
    /\ UNCHANGED <<calls, tail>>

tractor_set_ignition_position ==
    /\ calls < MaxCalls
    /\ \E position \in IgnitionPositions : SetIgnitionPosition(position)
    /\ calls' = calls + 1
    /\ UNCHANGED tail

tractor_set_engine_speed_setpoint ==
    /\ calls < MaxCalls
    /\ \E setpoint \in SetpointInputs : SetEngineSpeedSetpoint(setpoint)
    /\ calls' = calls + 1
    /\ UNCHANGED tail

tractor_play_dixie_song ==
    /\ calls < MaxCalls
    /\ PlayDixieSong
    /\ calls' = calls + 1
    /\ UNCHANGED tail

Next ==
    \/ tractor_update_model
    \/ tractor_set_ignition_position
    \/ tractor_set_engine_speed_setpoint
    \/ tractor_play_dixie_song

Spec == Init /\ [][Next]_vars

(***************************************************************************)
(* SpecSetpoint: a caller that turns the key once, then requests one       *)
(* setpoint out of all the 8-bit values at any time and may repeat the     *)
(* request at once; MaxTail updates follow the request.                    *)
(***************************************************************************)
throttle_update ==
    /\ calls >= 2 => tail < MaxTail
    /\ UpdateModel
    /\ tail' = IF calls >= 2 THEN tail + 1 ELSE tail
    /\ UNCHANGED calls

throttle_ignition ==
    /\ calls = 0
    /\ \E position \in {IGNITION_ON, IGNITION_START} :
          SetIgnitionPosition(position)
    /\ calls' = 1
    /\ UNCHANGED tail

throttle_setpoint ==
    /\ calls = 1
    /\ \E setpoint \in 0..(UINT8 - 1) : SetEngineSpeedSetpoint(setpoint)
    /\ calls' = 2
    /\ UNCHANGED tail

throttle_setpoint_again ==
    /\ calls = 2
    /\ last_op[1] = "setpoint"
    /\ SetEngineSpeedSetpoint(last_op[2])
    /\ calls' = 3
    /\ UNCHANGED tail

NextSetpoint ==
    \/ throttle_update
    \/ throttle_ignition
    \/ throttle_setpoint
    \/ throttle_setpoint_again

SpecSetpoint == Init /\ [][NextSetpoint]_vars

(***************************************************************************)
(* SpecDixie: a caller that turns the key to ON or START, then opens the   *)
(* throttle at any time, may later turn the key to OFF, and presses the    *)
(* horn button once, at any point of this; nothing is explored after the   *)
(* press or after the key is turned off.                                   *)
(***************************************************************************)
horn_button_update ==
    /\ calls <= 2
    /\ UpdateModel
    /\ UNCHANGED <<calls, tail>>

horn_button_ignition ==
    /\ calls = 0
    /\ \E position \in {IGNITION_ON, IGNITION_START} :
          SetIgnitionPosition(position)
    /\ calls' = 1
    /\ UNCHANGED tail

horn_button_setpoint ==
    /\ calls = 1
    /\ SetEngineSpeedSetpoint(ENGINE_SPEED_MAX)
    /\ calls' = 2
    /\ UNCHANGED tail

horn_button_key_off ==
    /\ calls = 2
    /\ SetIgnitionPosition(IGNITION_OFF)
    /\ calls' = 3
    /\ UNCHANGED tail

horn_button_dixie ==
    /\ calls <= 3
    /\ PlayDixieSong
    /\ calls' = 4
    /\ UNCHANGED tail

NextDixie ==
    \/ horn_button_update
    \/ horn_button_ignition
    \/ horn_button_setpoint
    \/ horn_button_key_off
    \/ horn_button_dixie

SpecDixie == Init /\ [][NextDixie]_vars

(***************************************************************************)
(* The API of the button manager and of the sound manager.                 *)
(***************************************************************************)
\* the variables of the tractor model and of its callers
tractor_vars == <<tractor, led_status, honk, held, streak, released, blinks, steady,
                  tail>>

Before == [button |-> button, sample_index |-> sample_index]

\* void button_set_adc_value(uint8_t adc_value)
SetAdcValue(adc_value) ==
    /\ button' = button_set_adc_value(button, adc_value)
    /\ result' = <<>>
    /\ last_op' = <<"set_adc", adc_value>>
    /\ before' = Before
    /\ clickhist' = EdgesAfterSample(clickhist, button, button')
    /\ UNCHANGED <<scheduler_vars, tractor_vars, horn, prev, sample_index, wavetable,
                   notehist>>

\* bool button_is_pressed(uint8_t button)
IsPressed(id) ==
    /\ result' = <<button_is_pressed(button, id)>>
    /\ last_op' = <<"is_pressed", id>>
    /\ before' = Before
    /\ UNCHANGED <<scheduler_vars, tractor_vars, horn, prev, button, sample_index, wavetable,
                   clickhist, notehist>>

\* bool button_is_clicked(uint8_t button)
IsClicked(id) ==
    /\ result' = <<button_is_clicked(button, id)>>
    /\ button' = button_clicked_reset(button, id)
    /\ last_op' = <<"is_clicked", id>>
    /\ before' = Before
    /\ clickhist' = EdgesAfterRead(clickhist, button, id)
    /\ UNCHANGED <<scheduler_vars, tractor_vars, horn, prev, sample_index, wavetable,
                   notehist>>

\* void audio_play_horn_song(uint8_t song)
PlayHornSong(song) ==
    /\ horn' = audio_play_horn_song(horn, song)
    /\ result' = <<>>
    /\ last_op' = <<"play", song>>
    /\ prev' = Snapshot
    /\ before' = Before
    /\ notehist' = NotesAfterPlay(notehist, horn, horn')
    /\ UNCHANGED <<scheduler_vars, tractor_vars, button, sample_index, wavetable, clickhist>>

\* void audio_horn_manager(void)
HornManager ==
    /\ horn' = audio_horn_manager(horn)
    /\ result' = <<>>
    /\ last_op' = <<"tick">>
    /\ prev' = Snapshot
    /\ before' = Before
    /\ notehist' = NotesAfterTick(notehist, horn, horn')
    /\ UNCHANGED <<scheduler_vars, tractor_vars, button, sample_index, wavetable, clickhist>>

\* uint8_t audio_get_next_sample(uint8_t engine_speed)
GetNextSample(engine_speed, past) ==
    LET r == audio_get_next_sample(sample_index, horn, wavetable,
                                   engine_speed, past)
    IN  /\ sample_index' = r.sample_index
        /\ result' = <<r>>
        /\ last_op' = <<"sample", engine_speed>>
        /\ prev' = Snapshot
        /\ before' = Before
        /\ UNCHANGED <<scheduler_vars, tractor_vars, horn, button, wavetable, clickhist,
                       notehist>>

(***************************************************************************)
(* The interrupt service routines and the main loop of main.c.  An         *)
(* interrupt service routine runs as one step.  The main loop is cut       *)
(* into five steps: "wait" is the busy wait, "sample" the audio sample and  *)
(* the test of update_status_timer, "buttons" the model-rate block up to   *)
(* the ignition position, "update" the rest of the block, "clear" the      *)
(* reset of update_audio_sample.                                           *)
(***************************************************************************)
\* the variables of the model functions the scheduler calls
model_vars == <<tractor, horn, led_status, honk, prev, held, streak, released, blinks,
                steady, button, sample_index, before, clickhist, notehist>>

\* ISR (TIMER0_COMPA_vect)
TimerIsr ==
    LET q == soft_pwm(ports, shared.output_pwm_duty_cycle)
    IN  /\ shared' = [shared EXCEPT !.update_audio_sample = TRUE]
        /\ ports' = [ports EXCEPT !.pwm_timer = q.pwm_timer,
                                  !.dc_motor_pin = q.pin]
        /\ schedhist' =
              PwmAfterIsr([Written(schedhist, {"update_audio_sample"}, "isr")
                              EXCEPT !.owed = @ + 1, !.fired = @ + 1], q)
        /\ result' = <<q.set>>
        /\ last_op' = <<"timer_isr">>
        /\ UNCHANGED <<main, model_vars, wavetable>>

\* ISR (ADC_vect), with the value adch of the conversion
\* mutant: the conversion of the buttons is started without a write of
\* adc_mux_selection
AdcIsr_keeps_mux(adch) ==
    /\ ports.adsc
    /\ IF shared.adc_mux_selection = ADC_READ_THROTTLE
       THEN /\ shared' = [shared EXCEPT !.adc_value_throttle = adch]
            /\ ports' = [ports EXCEPT !.adsc = TRUE]
            /\ schedhist' = Written(schedhist, {"adc_value_throttle"}, "isr")
       ELSE /\ shared' = [shared EXCEPT !.adc_value_buttons = adch]
            /\ ports' = [ports EXCEPT !.adsc = FALSE]
            /\ schedhist' = Written(schedhist, {"adc_value_buttons"}, "isr")
    /\ result' = <<>>
    /\ last_op' = <<"adc_isr", adch>>
    /\ UNCHANGED <<main, model_vars, wavetable>>

AdcIsr(adch) ==
    /\ ports.adsc
    /\ IF shared.adc_mux_selection = ADC_READ_THROTTLE
       THEN /\ shared' = [shared EXCEPT !.adc_value_throttle = adch,
                                        !.adc_mux_selection = ADC_READ_BUTTONS]
            /\ ports' = [ports EXCEPT !.adsc = TRUE]
            /\ schedhist' = Written(schedhist, {"adc_value_throttle",
                                                "adc_mux_selection"}, "isr")
       ELSE /\ shared' = [shared EXCEPT !.adc_value_buttons = adch]
            /\ ports' = [ports EXCEPT !.adsc = FALSE]
            /\ schedhist' = Written(schedhist, {"adc_value_buttons"}, "isr")
    /\ result' = <<>>
    /\ last_op' = <<"adc_isr", adch>>
    /\ UNCHANGED <<main, model_vars, wavetable>>

\* mutant: the pass starts without waiting for update_audio_sample
MainWait_no_wait ==
    /\ main.pc = "wait"
    /\ main' = [main EXCEPT !.pc = "sample"]
    /\ schedhist' = [schedhist EXCEPT !.passes = @ + 1]
    /\ result' = <<>>
    /\ last_op' = <<"main_wait">>
    /\ UNCHANGED <<shared, ports, model_vars, wavetable>>

\* while (!update_audio_sample);
MainWait ==
    /\ main.pc = "wait"
    /\ shared.update_audio_sample
    /\ main' = [main EXCEPT !.pc = "sample"]
    /\ schedhist' = [schedhist EXCEPT !.passes = @ + 1]
    /\ result' = <<>>
    /\ last_op' = <<"main_wait">>
    /\ UNCHANGED <<shared, ports, model_vars, wavetable>>

\* OCR1B = audio_get_next_sample(tractor_get_engine_speed());
\* if (++update_status_timer >= TRACTOR_MODEL_CYCLE) update_status_timer = 0;
MainSample(past) ==
    LET r   == audio_get_next_sample(sample_index, horn, wavetable,
                   tractor_get_engine_speed(tractor.engine_speed), past)
        due == model_tick_due(main.update_status_timer)
    IN  /\ main.pc = "sample"
        /\ sample_index' = r.sample_index
        /\ ports' = [ports EXCEPT !.ocr1b = r.value]
        /\ main' = [pc |-> IF due THEN "buttons" ELSE "clear",
                    update_status_timer |->
                        IF due THEN 0
                        ELSE (main.update_status_timer + 1) % UINT16]
        /\ schedhist' = [schedhist EXCEPT !.samples = @ + 1,
                                          !.owed = @ - 1]
        /\ result' = <<r>>
        /\ last_op' = <<"main_sample">>
        /\ prev' = Snapshot
        /\ before' = Before
        /\ UNCHANGED <<shared, tractor, horn, led_status, honk, held, streak,
                       released, blinks, steady, button, clickhist, notehist,
                       wavetable>>

\* button_set_adc_value(adc_value_buttons); the Dixie song on a click of
\* HORN; tractor_set_ignition_position(...)
\* mutant: the ignition position is refreshed before the HORN click is read
MainButtons_ignition_first ==
    LET b1      == button_set_adc_value(button, shared.adc_value_buttons)
        t0      == [tractor EXCEPT
                       !.ignition_position = ignition_request(b1)]
        clicked == button_is_clicked(b1, BUTTON_HORN)
        b2      == button_clicked_reset(b1, BUTTON_HORN)
        dixie   == clicked /\ dixie_gate(t0)
        h1      == IF dixie THEN audio_play_horn_song(horn, SONG_DIXIE)
                   ELSE horn
    IN  /\ main.pc = "buttons"
        /\ button' = b2
        /\ tractor' = IF dixie THEN [t0 EXCEPT !.horn_counter = 0] ELSE t0
        /\ horn' = h1
        /\ honk' = IF dixie THEN <<SONG_DIXIE>> ELSE <<>>
        /\ clickhist' = EdgesAfterRead(EdgesAfterSample(clickhist, button, b1),
                                       b1, BUTTON_HORN)
        /\ notehist' = NotesAfterPlay(notehist, horn, h1)
        /\ main' = [main EXCEPT !.pc = "update"]
        /\ result' = <<clicked>>
        /\ last_op' = <<"main_buttons", shared.adc_value_buttons>>
        /\ prev' = Snapshot
        /\ before' = Before
        /\ UNCHANGED <<shared, ports, schedhist, led_status, held, streak,
                       released, blinks, steady, sample_index, wavetable>>

MainButtons ==
    LET b1      == button_set_adc_value(button, shared.adc_value_buttons)
        clicked == button_is_clicked(b1, BUTTON_HORN)
        b2      == button_clicked_reset(b1, BUTTON_HORN)
        dixie   == clicked /\ dixie_gate(tractor)
        t1      == IF dixie THEN [tractor EXCEPT !.horn_counter = 0]
                   ELSE tractor
        h1      == IF dixie THEN audio_play_horn_song(horn, SONG_DIXIE)
                   ELSE horn
    IN  /\ main.pc = "buttons"
        /\ button' = b2
        /\ tractor' = [t1 EXCEPT !.ignition_position = ignition_request(b2)]
        /\ horn' = h1
        /\ honk' = IF dixie THEN <<SONG_DIXIE>> ELSE <<>>
        /\ clickhist' = EdgesAfterRead(EdgesAfterSample(clickhist, button, b1),
                                       b1, BUTTON_HORN)
        /\ notehist' = NotesAfterPlay(notehist, horn, h1)
        /\ main' = [main EXCEPT !.pc = "update"]
        /\ result' = <<clicked>>
        /\ last_op' = <<"main_buttons", shared.adc_value_buttons>>
        /\ prev' = Snapshot
        /\ before' = Before
        /\ UNCHANGED <<shared, ports, schedhist, led_status, held, streak, released,
                       blinks, steady, sample_index, wavetable>>

\* tractor_set_engine_speed_setpoint(...); tractor_update_model();
\* output_set_led(...); output_set_dc_motor_pwm(...);
\* adc_start_conversion(ADC_READ_THROTTLE);
MainUpdate ==
    LET t1   == set_engine_speed_setpoint(tractor,
                    setpoint_request(shared.adc_value_throttle))
        t2   == update_switch(t1)
        q    == update_songs(t1)
        h1   == PlayAll(horn, q)
        h2   == audio_horn_manager(h1)
        led  == is_led_on(t2.engine_speed, t2.led_counter)
        duty == output_set_dc_motor_pwm(
                    tractor_get_engine_speed(t2.engine_speed))
    IN  /\ main.pc = "update"
        /\ tractor' = t2
        /\ honk' = q
        /\ horn' = h2
        /\ led_status' = led
        /\ held' = HeldNext(held, t1.ignition_position)
        /\ streak' = StreakNext(streak, t1.ignition_position)
        /\ released' = ReleasedNext(held, released, t1.ignition_position)
        /\ steady' = IF Wrapped(t1, t2) THEN SteadyStep(t1, t2)
                     ELSE steady /\ SteadyStep(t1, t2)
        /\ blinks' = (IF Wrapped(t1, t2) THEN 0 ELSE blinks)
                     + (IF led THEN 1 ELSE 0)
        /\ notehist' = NotesAfterTick(NotesAfterPlay(notehist, horn, h1),
                                      h1, h2)
        /\ shared' = [shared EXCEPT !.output_pwm_duty_cycle = duty,
                                    !.adc_mux_selection = ADC_READ_THROTTLE]
        /\ ports' = [ports EXCEPT !.led_pin = led, !.adsc = TRUE]
        /\ schedhist' =
              PwmAfterDuty([Written(schedhist, {"output_pwm_duty_cycle",
                                                "adc_mux_selection"}, "main")
                               EXCEPT !.blocks = @ + 1],
                           shared.output_pwm_duty_cycle, duty)
        /\ main' = [main EXCEPT !.pc = "clear"]
        /\ result' = <<led>>
        /\ last_op' = <<"main_update", shared.adc_value_throttle>>
        /\ prev' = Snapshot
        /\ before' = Before
        /\ UNCHANGED <<button, sample_index, clickhist, wavetable>>

\* update_audio_sample = false;
MainClear ==
    /\ main.pc = "clear"
    /\ shared' = [shared EXCEPT !.update_audio_sample = FALSE]
    /\ schedhist' = [Written(schedhist, {"update_audio_sample"}, "main")
                        EXCEPT !.lost = @ + schedhist.owed, !.owed = 0,
                               !.clears = @ + 1]
    /\ main' = [main EXCEPT !.pc = "wait"]
    /\ result' = <<>>
    /\ last_op' = <<"main_clear">>
    /\ UNCHANGED <<ports, model_vars, wavetable>>

\* output_set_dc_motor_pwm(engine_speed), called on its own
SetDcMotorPwm(engine_speed) ==
    LET duty == output_set_dc_motor_pwm(engine_speed)
    IN  /\ shared' = [shared EXCEPT !.output_pwm_duty_cycle = duty]
        /\ schedhist' =
              PwmAfterDuty(Written(schedhist, {"output_pwm_duty_cycle"},
                                   "main"),
                           shared.output_pwm_duty_cycle, duty)
        /\ result' = <<>>
        /\ last_op' = <<"set_dc_motor_pwm", engine_speed>>
        /\ UNCHANGED <<main, ports, model_vars, wavetable>>

(***************************************************************************)
(* SpecScheduler: the main loop with the two interrupt service routines    *)
(* at any point of it, for MaxModelTicks model-rate blocks.  The timer     *)
(* fires while at most MaxLost of its earlier firings are unanswered or    *)
(* were lost; a conversion of the ADC gives one of AdcInputs.              *)
(***************************************************************************)
scheduler_timer_isr ==
    /\ schedhist.owed + schedhist.lost <= MaxLost
    /\ TimerIsr
    /\ UNCHANGED <<calls, tail>>

scheduler_adc_isr ==
    /\ \E adch \in AdcInputs : AdcIsr(adch)
    /\ UNCHANGED <<calls, tail>>

scheduler_main_wait ==
    /\ schedhist.blocks < MaxModelTicks
    /\ MainWait
    /\ UNCHANGED <<calls, tail>>

scheduler_main_sample ==
    /\ \E past \in PastValues : MainSample(past)
    /\ UNCHANGED <<calls, tail>>

scheduler_main_buttons ==
    /\ MainButtons
    /\ UNCHANGED <<calls, tail>>

scheduler_main_update ==
    /\ MainUpdate
    /\ UNCHANGED <<calls, tail>>

scheduler_main_clear ==
    /\ MainClear
    /\ UNCHANGED <<calls, tail>>

NextScheduler ==
    \/ scheduler_timer_isr
    \/ scheduler_adc_isr
    \/ scheduler_main_wait
    \/ scheduler_main_sample
    \/ scheduler_main_buttons
    \/ scheduler_main_update
    \/ scheduler_main_clear

SpecScheduler == Init /\ [][NextScheduler]_vars

(***************************************************************************)
(* SpecNominal: MaxNominalBlocks model-rate blocks of the run in which the *)
(* main loop is back at its busy wait, and the two conversions of the ADC  *)
(* are complete, before the timer fires again; the ADC converts            *)
(* NominalAdc.                                                             *)
(***************************************************************************)
nominal_timer_isr ==
    /\ main.pc = "wait"
    /\ ~shared.update_audio_sample
    /\ ~ports.adsc
    /\ TimerIsr
    /\ UNCHANGED <<calls, tail>>

nominal_adc_isr ==
    /\ main.pc = "wait"
    /\ AdcIsr(NominalAdc(shared.adc_mux_selection, schedhist.blocks))
    /\ UNCHANGED <<calls, tail>>

nominal_main_wait ==
    /\ schedhist.blocks < MaxNominalBlocks
    /\ MainWait
    /\ UNCHANGED <<calls, tail>>

nominal_main_sample ==
    /\ \E past \in PastValues : MainSample(past)
    /\ UNCHANGED <<calls, tail>>

nominal_main_buttons ==
    /\ MainButtons
    /\ UNCHANGED <<calls, tail>>

nominal_main_update ==
    /\ MainUpdate
    /\ UNCHANGED <<calls, tail>>

nominal_main_clear ==
    /\ MainClear
    /\ UNCHANGED <<calls, tail>>

NextNominal ==
    \/ nominal_timer_isr
    \/ nominal_adc_isr
    \/ nominal_main_wait
    \/ nominal_main_sample
    \/ nominal_main_buttons
    \/ nominal_main_update
    \/ nominal_main_clear

SpecNominal == Init /\ [][NextNominal]_vars

(***************************************************************************)
(* SpecThrottle: a caller that turns the key once, then requests at any    *)
(* time the setpoint of one throttle reading out of all the 8-bit values,  *)
(* as the main loop does; MaxTail updates follow the request.              *)
(***************************************************************************)
\* tractor_set_engine_speed_setpoint(ENGINE_SPEED_IDLE +
\*         ((adc_value_throttle - ADC_THROTTLE_IDLE) >> 1));
ThrottleRequest(adc_value) ==
    /\ tractor' = set_engine_speed_setpoint(tractor,
                                            setpoint_request(adc_value))
    /\ last_op' = <<"throttle", adc_value>>
    /\ prev' = Snapshot
    /\ honk' = <<>>
    /\ UNCHANGED <<horn, led_status, held, streak, released, blinks, steady>>
    /\ UNCHANGED <<peripheral_vars, scheduler_vars>>

reading_update ==
    /\ calls >= 2 => tail < MaxTail
    /\ UpdateModel
    /\ tail' = IF calls >= 2 THEN tail + 1 ELSE tail
    /\ UNCHANGED calls

reading_ignition ==
    /\ calls = 0
    /\ \E position \in {IGNITION_ON, IGNITION_START} :
          SetIgnitionPosition(position)
    /\ calls' = 1
    /\ UNCHANGED tail

reading_throttle ==
    /\ calls = 1
    /\ \E adc_value \in 0..(UINT8 - 1) : ThrottleRequest(adc_value)
    /\ calls' = 2
    /\ UNCHANGED tail

NextThrottle ==
    \/ reading_update
    \/ reading_ignition
    \/ reading_throttle

SpecThrottle == Init /\ [][NextThrottle]_vars

(***************************************************************************)
(* SpecKey: a caller that holds the key at START from the initial state,   *)
(* opens the throttle as soon as the engine runs, turns the key to OFF at  *)
(* any time after that and may turn it to START again at any time;         *)
(* MaxTail updates follow the second START.                                *)
(***************************************************************************)
key_update ==
    /\ calls >= 4 => tail < MaxTail
    /\ UpdateModel
    /\ tail' = IF calls >= 4 THEN tail + 1 ELSE tail
    /\ UNCHANGED calls

key_start ==
    /\ calls = 0
    /\ SetIgnitionPosition(IGNITION_START)
    /\ calls' = 1
    /\ UNCHANGED tail

key_setpoint ==
    /\ calls = 1
    /\ held = CRANKING_MINIMUM_TIME + 2
    /\ SetEngineSpeedSetpoint(ENGINE_SPEED_MAX)
    /\ calls' = 2
    /\ UNCHANGED tail

key_off ==
    /\ calls = 2
    /\ SetIgnitionPosition(IGNITION_OFF)
    /\ calls' = 3
    /\ UNCHANGED tail

key_start_again ==
    /\ calls = 3
    /\ SetIgnitionPosition(IGNITION_START)
    /\ calls' = 4
    /\ UNCHANGED tail

NextKey ==
    \/ key_update
    \/ key_start
    \/ key_setpoint
    \/ key_off
    \/ key_start_again

SpecKey == Init /\ [][NextKey]_vars

(***************************************************************************)
(* SpecHorn: a caller that holds the key at START from the initial state,  *)
(* opens the throttle as soon as the engine runs or never, and presses the *)
(* horn button once, at any time; MaxHornTail updates follow the press.    *)
(***************************************************************************)
horn_update ==
    /\ calls >= 3 => tail < MaxHornTail
    /\ UpdateModel
    /\ tail' = IF calls >= 3 THEN tail + 1 ELSE tail
    /\ UNCHANGED calls

horn_start ==
    /\ calls = 0
    /\ SetIgnitionPosition(IGNITION_START)
    /\ calls' = 1
    /\ UNCHANGED tail

horn_setpoint ==
    /\ calls = 1
    /\ held = CRANKING_MINIMUM_TIME + 2
    /\ SetEngineSpeedSetpoint(ENGINE_SPEED_MAX)
    /\ calls' = 2
    /\ UNCHANGED tail

horn_dixie ==
    /\ calls \in {1, 2}
    /\ PlayDixieSong
    /\ calls' = 3
    /\ UNCHANGED tail

NextHorn ==
    \/ horn_update
    \/ horn_start
    \/ horn_setpoint
    \/ horn_dixie

SpecHorn == Init /\ [][NextHorn]_vars

(***************************************************************************)
(* SpecPwm: MaxPwmTicks firings of the timer interrupt with the duty cycle  *)
(* set, at most MaxDutyChanges times and at any time, for any engine       *)
(* speed.  tail counts the firings.                                        *)
(***************************************************************************)
pwm_timer_isr ==
    /\ tail < MaxPwmTicks
    /\ TimerIsr
    /\ tail' = tail + 1
    /\ UNCHANGED calls

pwm_set_dc_motor_pwm ==
    /\ calls < MaxDutyChanges
    /\ \E engine_speed \in 0..(UINT8 - 1) : SetDcMotorPwm(engine_speed)
    /\ calls' = calls + 1
    /\ UNCHANGED tail

NextPwm ==
    \/ pwm_timer_isr
    \/ pwm_set_dc_motor_pwm

SpecPwm == Init /\ [][NextPwm]_vars

(***************************************************************************)
(* SpecButtons: any sequence of ADC values and of reads of the three       *)
(* buttons, with at most MaxEdges rising edges of each button.  The ADC    *)
(* values are the two ends of each of the five bands.                      *)
(***************************************************************************)
Buttons == 0..(BUTTON_COUNT - 1)

AdcBandEnds ==
    {0, ADC_THRESHOLD_OFF, ADC_THRESHOLD_OFF + 1,
     ADC_THRESHOLD_ON, ADC_THRESHOLD_ON + 1,
     ADC_THRESHOLD_ON_HORN, ADC_THRESHOLD_ON_HORN + 1,
     ADC_THRESHOLD_ON_START, ADC_THRESHOLD_ON_START + 1, UINT8 - 1}

buttons_set_adc_value ==
    /\ \E adc_value \in AdcBandEnds : SetAdcValue(adc_value)
    /\ \A id \in Buttons : clickhist'[id].edges <= MaxEdges
    /\ UNCHANGED calls

buttons_is_pressed ==
    /\ \E id \in Buttons : IsPressed(id)
    /\ UNCHANGED calls

buttons_is_clicked ==
    /\ \E id \in Buttons : IsClicked(id)
    /\ UNCHANGED calls

NextButtons ==
    \/ buttons_set_adc_value
    \/ buttons_is_pressed
    \/ buttons_is_clicked

SpecButtons == Init /\ [][NextButtons]_vars

(***************************************************************************)
(* SpecDecode: MaxDecodes calls of button_set_adc_value, each with any of  *)
(* the 256 ADC values.                                                     *)
(***************************************************************************)
decode_set_adc_value ==
    /\ calls < MaxDecodes
    /\ \E adc_value \in 0..(UINT8 - 1) : SetAdcValue(adc_value)
    /\ calls' = calls + 1

NextDecode == decode_set_adc_value

SpecDecode == Init /\ [][NextDecode]_vars

(***************************************************************************)
(* SpecAudio: any sequence of song requests and horn ticks, with at most   *)
(* MaxSamples calls of the sample generator at any point of it.            *)
(***************************************************************************)
audio_play ==
    /\ \E song \in SongInputs : PlayHornSong(song)
    /\ UNCHANGED calls

audio_tick ==
    /\ HornManager
    /\ UNCHANGED calls

audio_sample ==
    /\ calls < MaxSamples
    /\ \E engine_speed \in EngineSpeeds, past \in PastValues :
          GetNextSample(engine_speed, past)
    /\ calls' = calls + 1

NextAudio ==
    \/ audio_play
    \/ audio_tick
    \/ audio_sample

SpecAudio == InitAudio /\ [][NextAudio]_vars

(***************************************************************************)
(* Shorthands of the claims.                                               *)
(***************************************************************************)
Updated == last_op = <<"update">>
Speed(t) == tractor_get_engine_speed(t.engine_speed)
Min(a, b) == IF a < b THEN a ELSE b
Max(a, b) == IF a < b THEN b ELSE a

\* C1 (as stated): from the initial state, after n >= CRANKING_MINIMUM_TIME
\* consecutive updates with the ignition held at START (the only input call
\* being the one that set START) the status is RUNNING and the setpoint is
\* ENGINE_SPEED_IDLE.
C1_RunningAfterMinimumTicks ==
    (held >= CRANKING_MINIMUM_TIME /\ calls = 1)
        => /\ tractor.status = ENGINE_RUNNING
           /\ tractor.engine_speed_setpoint = ENGINE_SPEED_IDLE

\* C2: when START was held for 1..99 updates from the initial state and then
\* released, the releasing update leaves status OFF with setpoint 0, and as
\* long as no update runs with START again every update leaves the filtered
\* speed no higher than before and no lower than floor(3/4 of it).
C2_EarlyReleaseDecays ==
    released =>
        /\ tractor.status = ENGINE_OFF
        /\ tractor.engine_speed_setpoint = 0
        /\ Updated =>
              /\ tractor.engine_speed <= prev.tractor.engine_speed
              /\ tractor.engine_speed >= (3 * prev.tractor.engine_speed) \div 4

\* C2 witness: START released after 99 updates and the speed, still above
\* zero, has been filtered by a later update in OFF.
C2_Witness ==
    /\ released
    /\ Updated
    /\ prev.tractor.status = ENGINE_OFF
    /\ prev.tractor.cranking_counter = CRANKING_MINIMUM_TIME - 1
    /\ tractor.engine_speed > 0
    /\ tractor.engine_speed < prev.tractor.engine_speed

\* C3: an update that starts in RUNNING ends in OFF with setpoint 0 when the
\* ignition position is OFF and stays in RUNNING when it is ON or START.
C3_RunningLeftOnlyByIgnitionOff ==
    (Updated /\ prev.tractor.status = ENGINE_RUNNING) =>
        IF prev.tractor.ignition_position = IGNITION_OFF
        THEN /\ tractor.status = ENGINE_OFF
             /\ tractor.engine_speed_setpoint = 0
        ELSE tractor.status = ENGINE_RUNNING

\* C3 witness: an update has just switched a RUNNING engine off.
C3_Witness ==
    /\ Updated
    /\ prev.tractor.status = ENGINE_RUNNING
    /\ prev.tractor.ignition_position = IGNITION_OFF
    /\ tractor.status = ENGINE_OFF

\* C4: RUNNING implies ENGINE_SPEED_IDLE <= setpoint <= ENGINE_SPEED_MAX, OFF
\* implies setpoint 0, CRANKING implies setpoint CRANKING_ENGINE_SPEED = 25.
C4_SetpointFollowsStatus ==
    /\ tractor.status \in {ENGINE_OFF, ENGINE_CRANKING, ENGINE_RUNNING}
    /\ tractor.status = ENGINE_RUNNING =>
          /\ tractor.engine_speed_setpoint >= 64
          /\ tractor.engine_speed_setpoint <= 168
    /\ tractor.status = ENGINE_OFF => tractor.engine_speed_setpoint = 0
    /\ tractor.status = ENGINE_CRANKING => tractor.engine_speed_setpoint = 25

\* C4 witness: a setpoint call above the range was made while RUNNING and the
\* engine is running at the clamped setpoint.
C4_Witness ==
    /\ tractor.status = ENGINE_RUNNING
    /\ last_op = <<"setpoint", 255>>
    /\ tractor.engine_speed_setpoint = ENGINE_SPEED_MAX

\* the value C5 says is stored for the argument v
C5_Clamped(v) == IF v > 168 THEN 168 ELSE IF v < 64 THEN 64 ELSE v

\* C5: for every 8-bit argument v, tractor_set_engine_speed_setpoint(v)
\* changes nothing unless the status is RUNNING, and then changes only the
\* setpoint, to v clamped into [64, 168] (the horn player and the LED value
\* are left alone); a second call with the same v changes nothing more.
C5_SetpointClampedOnlyWhileRunning ==
    last_op[1] = "setpoint" =>
        /\ tractor = IF prev.tractor.status = ENGINE_RUNNING
                     THEN [prev.tractor EXCEPT
                              !.engine_speed_setpoint = C5_Clamped(last_op[2])]
                     ELSE prev.tractor
        /\ horn = prev.horn
        /\ led_status = prev.led_status
        /\ calls = 3 => tractor = prev.tractor

\* C5 witness: a call above the range made while RUNNING at a lower setpoint
\* stored ENGINE_SPEED_MAX, and was then repeated.
C5_Witness ==
    /\ last_op = <<"setpoint", 200>>
    /\ calls = 3
    /\ tractor.status = ENGINE_RUNNING
    /\ tractor.engine_speed_setpoint = ENGINE_SPEED_MAX

\* C6: the public speed never exceeds ENGINE_SPEED_MAX: the filtered speed is
\* at most 168 << 8, every update leaves it between its old value and the
\* (new) setpoint << 8, and from every reachable speed each filter constant
\* and each setpoint the status allows gives a step between the old speed
\* and setpoint << 8 whose shifted accumulator already fits 16 bits.
C6_Between(x, old, target) ==
    Min(old, target) <= x /\ x <= Max(old, target)

C6_SpeedNeverOvershoots ==
    /\ Speed(tractor) <= ENGINE_SPEED_MAX
    /\ tractor.engine_speed <= 168 * 256
    /\ Updated =>
          C6_Between(tractor.engine_speed, prev.tractor.engine_speed,
                     tractor.engine_speed_setpoint * 256)
    /\ \A a \in {2, 4, 6} : \A sp \in {0, 25, 64, 117, 168} :
          /\ C6_Between(update_engine_speed(tractor.engine_speed, sp, a),
                        tractor.engine_speed, sp * 256)
          /\ Shr(filter_accumulator(tractor.engine_speed, sp, a), a) < UINT16

\* C6 witness: the filtered speed has settled within one filter step of
\* ENGINE_SPEED_MAX << 8 after an update with the slow filter.
C6_Witness ==
    /\ Updated
    /\ tractor.engine_speed_setpoint = ENGINE_SPEED_MAX
    /\ Speed(tractor) = ENGINE_SPEED_MAX - 1
    /\ tractor.engine_speed = prev.tractor.engine_speed

C8_LedOnInFirstHalf ==
    led_status <=> /\ Speed(tractor) >= 68
                   /\ tractor.led_counter < LED_CYCLE \div 2
                   /\ tractor.led_counter % 2 = 1

\* C8 (amended): the LED value returned by tractor_update_model is true
\* exactly when the public speed is >= 68, the blink counter is below 12 and
\* the blink counter is odd.
C8_LedOnInFirstTwelveTicks ==
    led_status <=> /\ Speed(tractor) >= 68
                   /\ tractor.led_counter < 12
                   /\ tractor.led_counter % 2 = 1

\* C8 witness: an update returned true.
C8_Witness ==
    /\ Updated
    /\ led_status
    /\ tractor.led_counter = 11

\* C9: in a blink cycle during which every update ran in RUNNING and left
\* the public speed >= 68, exactly six updates return true: the LED is never
\* on for two updates in a row, the flashes are one update apart until the
\* sixth, and the LED is off for the rest of the cycle.
C9_SixFlashesPerCycle ==
    steady =>
        /\ blinks <= 6
        /\ tractor.led_counter = LED_CYCLE => blinks = 6
        /\ Updated =>
              /\ ~(led_status /\ prev.led_status)
              /\ (~led_status /\ ~prev.led_status /\ blinks > 0) => blinks = 6
              /\ (led_status /\ blinks > 1) =>
                    tractor.led_counter = prev.tractor.led_counter + 1

\* C9 witness: a whole blink cycle has run with effects active and the blink
\* counter is about to wrap.
C9_Witness ==
    /\ steady
    /\ Updated
    /\ tractor.led_counter = LED_CYCLE
    /\ blinks = 6

\* C10: tractor_play_dixie_song changes nothing when the stored ignition
\* position is OFF; when it is ON or START, whatever the engine status, it
\* starts the Dixie song from its first note and resets the horn cycle
\* counter to 0, and changes nothing else.
C10_DixieGatedByIgnition ==
    last_op = <<"dixie">> =>
        IF prev.tractor.ignition_position = IGNITION_OFF
        THEN /\ tractor = prev.tractor
             /\ horn = prev.horn
             /\ honk = <<>>
        ELSE /\ tractor = [prev.tractor EXCEPT !.horn_counter = 0]
             /\ honk = <<SONG_DIXIE>>
             /\ horn = [song            |-> SONG_LIBRARY[SONG_DIXIE + 1],
                        current_note    |-> 0,
                        note_counter    |-> 0,
                        index_increment |-> 64,
                        playing         |-> TRUE]

\* C10 witness: Dixie was started over a playing automatic honk, in RUNNING,
\* and reset a horn counter that was not zero.
C10_Witness ==
    /\ last_op = <<"dixie">>
    /\ prev.tractor.status = ENGINE_RUNNING
    /\ prev.tractor.horn_counter > 0
    /\ prev.horn.playing
    /\ tractor.horn_counter = 0
    /\ horn.song.size = 23

\* C10 second witness: the call was ignored with the key at OFF while an
\* automatic honk was playing and the horn counter was not zero.
C10_WitnessIgnored ==
    /\ last_op = <<"dixie">>
    /\ prev.tractor.ignition_position = IGNITION_OFF
    /\ horn.playing
    /\ horn.song.size = 5
    /\ tractor.horn_counter > 0

(***************************************************************************)
(* Claims about the button manager.                                        *)
(***************************************************************************)
\* the buttons pressed, and the buttons with a pending click, in a state b
Pressed(b) == {id \in 0..7 : BitOf(b.level, id) = 1}
Pending(b) == {id \in 0..7 : BitOf(b.clicked, id) = 1}
Called(name) == last_op[1] = name

\* the five bands of C11
C11_Band(s) ==
    IF s <= 23 THEN {}
    ELSE IF s <= 63 THEN {BUTTON_ON}
    ELSE IF s <= 99 THEN {BUTTON_ON, BUTTON_HORN}
    ELSE IF s <= 186 THEN {BUTTON_ON, BUTTON_START}
    ELSE {BUTTON_ON, BUTTON_START, BUTTON_HORN}

\* C11: after button_set_adc_value(s), for every 8-bit s and whatever the
\* buttons were before, the buttons pressed are exactly those of the band
\* of s: none up to 23, ON up to 63, ON and HORN up to 99, ON and START up
\* to 186, all three above.
C11_DecodedBands ==
    Called("set_adc") => Pressed(button) = C11_Band(last_op[2])

\* C11 witness: the topmost band decoded right after another band.
C11_Witness ==
    /\ Called("set_adc")
    /\ last_op[2] = ADC_THRESHOLD_ON_START + 1
    /\ Pressed(before.button) = {BUTTON_ON, BUTTON_HORN}
    /\ Pressed(button) = {BUTTON_ON, BUTTON_START, BUTTON_HORN}

\* C12: button_set_adc_value makes a click pending for exactly the defined
\* buttons that were not pressed before and are pressed in the new sample,
\* keeps every click that was already pending, and replaces the buttons
\* pressed by the newly decoded ones.
C12_ClicksAreRisingEdges ==
    Called("set_adc") =>
        /\ Pending(button) =
              Pending(before.button)
              \cup ((C11_Band(last_op[2]) \ Pressed(before.button))
                    \cap Buttons)
        /\ Pressed(button) = C11_Band(last_op[2])

\* C12 witness: a sample adds a click while another click is pending and
\* its button has been released.
C12_Witness ==
    /\ Called("set_adc")
    /\ Pending(before.button) = {BUTTON_ON, BUTTON_HORN}
    /\ Pressed(button) = {BUTTON_ON, BUTTON_START}
    /\ Pending(button) = {BUTTON_ON, BUTTON_START, BUTTON_HORN}

\* C13: button_is_clicked(b) returns the pending click of b and clears it
\* only: the other pending clicks and the buttons pressed are unchanged;
\* button_is_pressed(b) returns whether b is pressed and changes nothing.
C13_ReadsOfOneButton ==
    /\ Called("is_clicked") =>
          /\ result = <<last_op[2] \in Pending(before.button)>>
          /\ Pending(button) = Pending(before.button) \ {last_op[2]}
          /\ Pressed(button) = Pressed(before.button)
    /\ Called("is_pressed") =>
          /\ result = <<last_op[2] \in Pressed(before.button)>>
          /\ button = before.button

\* C13 witness: a click is read while the clicks of the two other buttons
\* are pending.
C13_Witness ==
    /\ Called("is_clicked")
    /\ result = <<TRUE>>
    /\ Cardinality(Pending(button)) = BUTTON_COUNT - 1

\* C13 witness: a pressed button is read while clicks are pending.
C13_WitnessPressed ==
    /\ Called("is_pressed")
    /\ result = <<TRUE>>
    /\ Pending(button) # {}

\* C14 (as stated): for every sequence of samples and reads, each rising
\* edge of a button is reported by exactly one read returning true: the
\* reads of a button that returned true, plus the click still pending, are
\* as many as its rising edges.
C14_OneClickPerEdge ==
    \A id \in Buttons :
        clickhist[id].clicks + (IF id \in Pending(button) THEN 1 ELSE 0)
            = clickhist[id].edges

\* C14 (amended): a click of a button is pending exactly when the button had
\* at least one rising edge since its last read, so a read returns true
\* exactly then and an immediately following read returns false; the reads
\* returning true are never more than the rising edges, and rising edges
\* with no read between them are reported by one read.
C14_OneClickPerReadEdge ==
    /\ \A id \in Buttons :
          /\ (id \in Pending(button)) <=> (clickhist[id].unread > 0)
          /\ clickhist[id].clicks
                + (IF id \in Pending(button) THEN 1 ELSE 0)
                <= clickhist[id].edges
    /\ Called("is_clicked") =>
          /\ result = <<last_op[2] \in Pending(before.button)>>
          /\ last_op[2] \notin Pending(button)

\* C14 witness: two rising edges of ON with no read between them, reported
\* by one read, with the button released and no click of the others.
C14_Witness ==
    /\ last_op = <<"is_clicked", BUTTON_ON>>
    /\ result = <<TRUE>>
    /\ clickhist[BUTTON_ON].edges = MaxEdges
    /\ clickhist[BUTTON_ON].clicks = 1
    /\ clickhist[BUTTON_START].edges = 0
    /\ clickhist[BUTTON_HORN].edges = 0
    /\ Pressed(button) = {}

(***************************************************************************)
(* Claims about the sound manager.                                         *)
(***************************************************************************)
\* the horn track contributes a sample of its array
Sounding(h) == h.playing /\ h.index_increment # 0
EngineLength == Shl(ENGINE_RUNNING_SIZE(wavetable), 4)
HornLength == Shl(TRACTOR_HORN_SIZE(wavetable), 6)

\* C15 (as stated): in every reachable state, whatever the horn player is
\* doing, audio_get_next_sample(0) returns the silence level 128 and resets
\* the engine phase to 0.
C15_SilenceAtSpeedZero ==
    last_op = <<"sample", 0>> =>
        /\ result[1].value = 128
        /\ sample_index.engine = 0

\* C15 (amended): audio_get_next_sample(0) resets the engine phase to 0 and
\* takes the silence level 128 as the engine sample; the value returned is
\* the horn sample, which is 128 when no song is playing or the current
\* note is a rest, and the sample of the horn array otherwise.
C15_EngineSilentAtSpeedZero ==
    last_op = <<"sample", 0>> =>
        /\ sample_index.engine = 0
        /\ result[1].engine_sample = 128
        /\ result[1].value = result[1].horn_sample
        /\ ~Sounding(horn) => result[1].value = 128

\* C15 witness: speed 0 with the engine phase advanced and a note sounding,
\* and the value returned is not the silence level.
C15_Witness ==
    /\ last_op = <<"sample", 0>>
    /\ before.sample_index.engine # 0
    /\ Sounding(horn)
    /\ result[1].value # 128

\* C16: audio_play_horn_song(id) with id >= SONG_COUNT changes nothing:
\* playing, the copied song, the note index, the note counter and the
\* current increment keep their values, and nothing is returned.
C16_UnknownSongIgnored ==
    (Called("play") /\ last_op[2] >= SONG_COUNT) =>
        /\ horn = prev.horn
        /\ result = <<>>

\* C16 witness: an unknown song is requested in the middle of a song.
C16_Witness ==
    /\ Called("play")
    /\ last_op[2] >= SONG_COUNT
    /\ horn.playing
    /\ horn.current_note > 0
    /\ horn.note_counter > 0

\* C17 (as stated): the note index never exceeds the length of the copied
\* song, and on the horn tick where the note index reaches the end of the
\* song playing is cleared.
C17_NoteIndexWithinSong ==
    /\ horn.current_note <= horn.song.size
    /\ (/\ Called("tick")
        /\ prev.horn.playing
        /\ prev.horn.current_note < horn.song.size
        /\ horn.current_note = horn.song.size) => ~horn.playing

\* C18 (as stated): while a song is playing a rest is kept as the current
\* note for more horn ticks than a sounding note.
C18_RestsLongerThanNotes ==
    (notehist.rest > 0 /\ notehist.sound > 0) => notehist.rest > notehist.sound

\* C18 (amended): while a song is playing a rest is kept as the current
\* note for HORN_PAUSE_DURATION = 1 horn tick and a sounding note for
\* HORN_NOTE_DURATION = 4 horn ticks: a rest is shorter than a sounding
\* note.
C18_RestsShorterThanNotes ==
    /\ notehist.rest \in {0, HORN_PAUSE_DURATION}
    /\ notehist.sound \in {0, HORN_NOTE_DURATION}
    /\ (notehist.rest > 0 /\ notehist.sound > 0) =>
          notehist.rest < notehist.sound
    /\ horn.playing =>
          notehist.age < (IF horn.index_increment = 0
                          THEN HORN_PAUSE_DURATION ELSE HORN_NOTE_DURATION)

\* C18 witness: a song is playing after a rest and a sounding note of it
\* have been replaced.
C18_Witness ==
    /\ horn.playing
    /\ horn.song = SONG_LIBRARY[SONG_DOUBLE_HONK + 1]
    /\ notehist.rest > 0
    /\ notehist.sound > 0

\* C19: after every audio_get_next_sample call the engine phase is below
\* ENGINE_RUNNING_SIZE * 16 and the horn phase below TRACTOR_HORN_SIZE * 64.
C19_PhasesWithinTracks ==
    /\ sample_index.engine \in 0..(EngineLength - 1)
    /\ sample_index.horn \in 0..(HornLength - 1)

\* C19 witness: one call takes both phases over the end of their tracks.
C19_Witness ==
    /\ Called("sample")
    /\ last_op[2] # 0
    /\ Sounding(horn)
    /\ sample_index.engine < before.sample_index.engine
    /\ sample_index.horn < before.sample_index.horn
    /\ sample_index.horn # 0

\* the 3-point interpolation of C20 on an offset of the given scale
C20_Interpolated(table, index, offset, scale) ==
    IF 3 * offset < scale THEN table[index + 1]
    ELSE IF 3 * offset >= 2 * scale THEN table[index + 2]
    ELSE Shr(table[index + 1], 1) + Shr(table[index + 2], 1)

\* C20 (as stated): on each track the sample is chosen by 3-point
\* interpolation on the fractional bits of the phase (4 bits on the engine
\* track, 6 on the horn track): the entry just below in the first third,
\* the entry just above in the last third, the two averaged in between.
C20_ThreePointInterpolation ==
    Called("sample") =>
        /\ (/\ last_op[2] # 0
            /\ Shr(sample_index.engine, 4) + 1
                  < ENGINE_RUNNING_SIZE(wavetable)) =>
              result[1].engine_sample =
                  C20_Interpolated(wavetable.ENGINE_RUNNING,
                                   Shr(sample_index.engine, 4),
                                   sample_index.engine % 16, 16)
        /\ (/\ Sounding(horn)
            /\ Shr(sample_index.horn, 6) + 1
                  < TRACTOR_HORN_SIZE(wavetable)) =>
              result[1].horn_sample =
                  C20_Interpolated(wavetable.TRACTOR_HORN,
                                   Shr(sample_index.horn, 6),
                                   sample_index.horn % 64, 64)

\* C20 restricted to the engine track.
C20_EngineTrackInterpolation ==
    (/\ Called("sample")
     /\ last_op[2] # 0
     /\ Shr(sample_index.engine, 4) + 1 < ENGINE_RUNNING_SIZE(wavetable)) =>
        result[1].engine_sample =
            C20_Interpolated(wavetable.ENGINE_RUNNING,
                             Shr(sample_index.engine, 4),
                             sample_index.engine % 16, 16)

\* clamp(x, 0, 255)
C21_Clamp(x) == IF x > 255 THEN 255 ELSE IF x < 0 THEN 0 ELSE x

C21_WitnessRest ==
    /\ Called("sample")
    /\ horn.playing
    /\ horn.index_increment = 0
    /\ before.sample_index.horn # 0
    /\ sample_index.horn = 0
    /\ result[1].value = result[1].engine_sample
    /\ result[1].value # 128

(***************************************************************************)
(* Claims about the transitions of the engine status.                      *)
(***************************************************************************)
C28_EntersRunning ==
    /\ Updated
    /\ prev.tractor.status = ENGINE_CRANKING
    /\ tractor.status = ENGINE_RUNNING

\* C28 (as stated): on the update that takes the status from CRANKING to
\* RUNNING the setpoint becomes ENGINE_SPEED_IDLE and the horn cycle counter
\* and the blink counter are both reset to zero.
C28_CountersResetOnRunning ==
    C28_EntersRunning =>
        /\ tractor.engine_speed_setpoint = 64
        /\ tractor.horn_counter = 0
        /\ tractor.led_counter = 0

\* C28 (amended): on that update the setpoint becomes ENGINE_SPEED_IDLE, the
\* horn cycle counter is reset to zero and the blink counter is set to
\* LED_CYCLE = 75, the last value of its cycle; it becomes zero on the next
\* update that stays in RUNNING.
C28_BlinkCounterAtEndOfCycle ==
    /\ C28_EntersRunning =>
          /\ tractor.engine_speed_setpoint = 64
          /\ tractor.horn_counter = 0
          /\ tractor.led_counter = 75
    /\ (/\ Updated
        /\ prev.tractor.status = ENGINE_RUNNING
        /\ tractor.status = ENGINE_RUNNING
        /\ prev.tractor.led_counter = 75) => tractor.led_counter = 0

\* C28 witness: the update that enters RUNNING, with the blink counter at
\* the end of its cycle.
C28_Witness ==
    /\ C28_EntersRunning
    /\ tractor.cranking_counter = CRANKING_MINIMUM_TIME + 1
    /\ tractor.horn_counter = 0
    /\ tractor.led_counter = LED_CYCLE

\* C28 witness: the update after RUNNING was entered.
C28_WitnessNext ==
    /\ Updated
    /\ prev.tractor.status = ENGINE_RUNNING
    /\ prev.tractor.cranking_counter = CRANKING_MINIMUM_TIME + 1
    /\ prev.tractor.led_counter = LED_CYCLE
    /\ tractor.led_counter = 0

\* C29: an update that starts in CRANKING increments the cranking counter;
\* if the incremented counter exceeds 100 the status becomes RUNNING
\* whatever the ignition position, otherwise the status becomes OFF with
\* setpoint 0 if the ignition is not at START and stays CRANKING if it is;
\* in every case the speed is filtered with a = 4 towards the new setpoint.
C29_CrankingCounterFirst ==
    (Updated /\ prev.tractor.status = ENGINE_CRANKING) =>
        /\ tractor.cranking_counter = prev.tractor.cranking_counter + 1
        /\ tractor.cranking_counter > 100 =>
              tractor.status = ENGINE_RUNNING
        /\ (/\ tractor.cranking_counter <= 100
            /\ prev.tractor.ignition_position # IGNITION_START) =>
              /\ tractor.status = ENGINE_OFF
              /\ tractor.engine_speed_setpoint = 0
        /\ (/\ tractor.cranking_counter <= 100
            /\ prev.tractor.ignition_position = IGNITION_START) =>
              /\ tractor.status = ENGINE_CRANKING
              /\ tractor.engine_speed_setpoint = prev.tractor.engine_speed_setpoint
        /\ tractor.engine_speed =
              (15 * prev.tractor.engine_speed
               + 256 * tractor.engine_speed_setpoint) \div 16

\* C29 witness: RUNNING is entered on an update with the ignition released.
C29_Witness ==
    /\ Updated
    /\ prev.tractor.status = ENGINE_CRANKING
    /\ prev.tractor.ignition_position # IGNITION_START
    /\ tractor.status = ENGINE_RUNNING

\* C29 witness: CRANKING is left for OFF at the last count below the limit.
C29_WitnessOff ==
    /\ Updated
    /\ prev.tractor.status = ENGINE_CRANKING
    /\ tractor.cranking_counter = CRANKING_MINIMUM_TIME
    /\ tractor.status = ENGINE_OFF

\* C30: audio_play_horn_song(id) with id < SONG_COUNT copies the size and the
\* notes of song id of the library, sets the note index and the note counter
\* to 0, the current increment to the first note of the song and playing to
\* true, also when a song is already playing.
C30_SongStartsFromFirstNote ==
    (Called("play") /\ last_op[2] < SONG_COUNT) =>
        /\ horn.song.size = SONG_LIBRARY[last_op[2] + 1].size
        /\ horn.song.note = SONG_LIBRARY[last_op[2] + 1].note
        /\ horn.current_note = 0
        /\ horn.note_counter = 0
        /\ horn.index_increment = horn.song.note[1]
        /\ horn.index_increment # 0
        /\ horn.playing

\* C30 witness: a song is requested in the middle of another song.
C30_Witness ==
    /\ Called("play")
    /\ last_op[2] = SONG_SINGLE_HONK
    /\ prev.horn.playing
    /\ prev.horn.song = SONG_LIBRARY[SONG_DIXIE + 1]
    /\ prev.horn.current_note > 0
    /\ prev.horn.note_counter > 0
    /\ horn.song = SONG_LIBRARY[SONG_SINGLE_HONK + 1]

C25_WitnessMin ==
    /\ last_op = <<"set_dc_motor_pwm", ENGINE_SPEED_MIN>>
    /\ shared.output_pwm_duty_cycle = PWM_DC_MOTOR_MIN + 2

C26_WitnessZero ==
    /\ last_op[1] = "timer_isr"
    /\ schedhist.whole
    /\ ports.pwm_timer = 0
    /\ shared.output_pwm_duty_cycle = 0
    /\ ~ports.dc_motor_pin

(***************************************************************************)
(* Claims about the main loop and the interrupt service routines.          *)
(***************************************************************************)
Writers(v) == schedhist.writers[v]

\* C22: every variable shared between the interrupt service routines and
\* the main loop is written by exactly one of the two sides, none by both
C22_SingleWriter ==
    \A v \in SharedVariables : Cardinality(Writers(v)) <= 1

\* C22, amended: output_pwm_duty_cycle is written by the main loop only,
\* adc_value_throttle and adc_value_buttons by the ADC interrupt only;
\* update_audio_sample is set by the timer interrupt and cleared by the
\* main loop, and adc_mux_selection is written by the main loop (throttle)
\* and by the ADC interrupt (buttons)
C22_WritersOfSharedVariables ==
    /\ Writers("output_pwm_duty_cycle") \subseteq {"main"}
    /\ Writers("adc_value_throttle") \subseteq {"isr"}
    /\ Writers("adc_value_buttons") \subseteq {"isr"}
    /\ last_op[1] = "timer_isr" =>
          /\ shared.update_audio_sample
          /\ "isr" \in Writers("update_audio_sample")
    /\ last_op[1] = "main_clear" =>
          /\ ~shared.update_audio_sample
          /\ "main" \in Writers("update_audio_sample")
    /\ last_op[1] = "main_update" =>
          /\ shared.adc_mux_selection = ADC_READ_THROTTLE
          /\ "main" \in Writers("adc_mux_selection")
          /\ "main" \in Writers("output_pwm_duty_cycle")
    /\ last_op[1] = "adc_isr" =>
          IF ports.adsc
          THEN /\ shared.adc_mux_selection = ADC_READ_BUTTONS
               /\ "isr" \in Writers("adc_mux_selection")
               /\ "isr" \in Writers("adc_value_throttle")
          ELSE "isr" \in Writers("adc_value_buttons")

\* both sides have written update_audio_sample and adc_mux_selection, and
\* each of the other three has been written
C22_Witness ==
    /\ Writers("update_audio_sample") = {"main", "isr"}
    /\ Writers("adc_mux_selection") = {"main", "isr"}
    /\ Writers("output_pwm_duty_cycle") = {"main"}
    /\ Writers("adc_value_throttle") = {"isr"}
    /\ Writers("adc_value_buttons") = {"isr"}

\* C23: for every interleaving of the timer interrupt with the main loop,
\* each firing leads to one audio sample: update_audio_sample is never
\* cleared for a firing without a sample computed for it
C23_NoTickLost == schedhist.lost = 0

\* a pass during which the timer fired again, before the flag is cleared
C23_FiredDuringPass ==
    /\ main.pc = "clear"
    /\ schedhist.owed = 1
    /\ schedhist.lost = 0

\* C24: the main loop computes one audio sample on every pass, and runs the
\* model-rate block on every 320th pass and on no other pass
C24_ModelBlockOnEvery320thPass ==
    /\ schedhist.samples
          = schedhist.passes - (IF main.pc = "sample" THEN 1 ELSE 0)
    /\ main.pc \in {"buttons", "update"} =>
          /\ schedhist.passes > 0
          /\ schedhist.passes % 320 = 0
          /\ schedhist.blocks = (schedhist.passes \div 320) - 1
    /\ main.pc \in {"clear", "wait"} =>
          /\ schedhist.blocks = schedhist.passes \div 320
          /\ main.update_status_timer = schedhist.passes % 320

\* the second model-rate block, on pass 640
C24_Witness ==
    /\ last_op[1] = "main_update"
    /\ schedhist.passes = 640
    /\ schedhist.blocks = 2

\* a pass without the model-rate block, after the first one
C24_WitnessPlainPass ==
    /\ last_op[1] = "main_sample"
    /\ main.pc = "clear"
    /\ schedhist.passes = 321
    /\ schedhist.blocks = 1

\* C27: every tick counter stays bounded: cranking counter <= 101, horn
\* cycle counter < 400 after each update, blink counter <= LED_CYCLE, horn
\* note counter < 4, horn note index < MAX_SONG_SIZE, downsampling counter
\* of the model < 320, counter of the soft PWM < 64
C27_CountersBounded ==
    /\ tractor.cranking_counter <= 101
    /\ tractor.horn_counter < 400
    /\ tractor.led_counter <= 75
    /\ horn.note_counter < 4
    /\ horn.current_note < 30
    /\ main.update_status_timer < 320
    /\ ports.pwm_timer < 64

\* the last pass before the model-rate block that follows the one entering
\* RUNNING: the cranking counter, the blink counter, the downsampling
\* counter and the counter of the soft PWM at their highest values
C27_Witness ==
    /\ tractor.status = ENGINE_RUNNING
    /\ tractor.cranking_counter = 101
    /\ tractor.led_counter = 75
    /\ main.update_status_timer = 319
    /\ ports.pwm_timer = 63

\* the last pass before the model-rate block that ends a horn cycle
C27_WitnessHornCycle ==
    /\ tractor.cranking_counter = 101
    /\ tractor.horn_counter = 399
    /\ main.update_status_timer = 319
    /\ ports.pwm_timer = 63

\* the end of the Dixie song: the note index one above the size of the song
C27_WitnessSong ==
    /\ horn.song = SONG_LIBRARY[SONG_DIXIE + 1]
    /\ horn.current_note = 24
    /\ ~horn.playing

\* the last horn tick of a note
C27_WitnessNote ==
    /\ horn.playing
    /\ horn.note_counter = 3

\* the last update of a blink cycle
C27_WitnessBlink ==
    /\ tractor.status = ENGINE_RUNNING
    /\ tractor.led_counter = 75
    /\ tractor.horn_counter > 0

(***************************************************************************)
(* Claims about the filter, the throttle and the cranking time.            *)
(***************************************************************************)
\* C31: each filter step computes
\* speed' = ((speed << a) - speed + (setpoint << 8)) >> a on the 16-bit
\* filtered speed without intermediate overflow, with a = 2 on updates that
\* start in OFF (the update that enters CRANKING already uses the cranking
\* setpoint), a = 4 on updates that start in CRANKING and on RUNNING updates
\* with public speed < 68, a = 6 on RUNNING updates with public speed >= 68;
\* the update that takes RUNNING to OFF leaves the filtered speed unchanged
C31_FilterStep ==
    Updated =>
        LET t      == prev.tractor
            public == t.engine_speed \div 256
            a      == IF t.status = ENGINE_CRANKING THEN 4
                      ELSE IF t.status # ENGINE_RUNNING THEN 2
                      ELSE IF public < 68 THEN 4 ELSE 6
            acc    == (t.engine_speed * (2 ^ a)) - t.engine_speed
                      + (tractor.engine_speed_setpoint * 256)
        IN  /\ (t.status = ENGINE_OFF /\ tractor.status = ENGINE_CRANKING)
                  => tractor.engine_speed_setpoint = CRANKING_ENGINE_SPEED
            /\ IF t.status = ENGINE_RUNNING
                  /\ t.ignition_position = IGNITION_OFF
               THEN /\ tractor.status = ENGINE_OFF
                    /\ tractor.engine_speed = t.engine_speed
               ELSE /\ t.engine_speed * (2 ^ a) >= t.engine_speed
                    /\ tractor.engine_speed_setpoint * 256 < UINT16
                    /\ acc <= 2147483647
                    /\ acc \div (2 ^ a) < UINT16
                    /\ tractor.engine_speed = acc \div (2 ^ a)

\* the update that enters CRANKING filters towards the cranking setpoint
C31_Witness ==
    /\ Updated
    /\ prev.tractor.status = ENGINE_OFF
    /\ tractor.status = ENGINE_CRANKING
    /\ prev.tractor.engine_speed = 0
    /\ tractor.engine_speed = (CRANKING_ENGINE_SPEED * 256) \div 4

\* a RUNNING update with effects active changes the speed with a = 6
C31_WitnessSlow ==
    /\ Updated
    /\ prev.tractor.status = ENGINE_RUNNING
    /\ tractor.status = ENGINE_RUNNING
    /\ prev.tractor.engine_speed \div 256 >= 68
    /\ tractor.engine_speed > prev.tractor.engine_speed

\* the update that takes RUNNING to OFF at a speed above zero
C31_WitnessOff ==
    /\ Updated
    /\ prev.tractor.status = ENGINE_RUNNING
    /\ tractor.status = ENGINE_OFF
    /\ tractor.engine_speed > 0

\* the setpoint stored in tractor state t for the throttle reading adc
Stored(t, adc) ==
    set_engine_speed_setpoint(t, setpoint_request(adc)).engine_speed_setpoint

C32_WitnessLow ==
    /\ last_op = <<"throttle", 0>>
    /\ prev.tractor.status = ENGINE_RUNNING
    /\ tractor.engine_speed_setpoint = 64

C33_WitnessReleased ==
    /\ Updated
    /\ prev.tractor.status = ENGINE_CRANKING
    /\ tractor.status = ENGINE_RUNNING
    /\ streak = [run |-> 0, before |-> 101]

\* the number of updates in OFF that take the filtered speed s to zero
RECURSIVE UpdatesToZero(_)
UpdatesToZero(s) ==
    IF s = 0 THEN 0 ELSE 1 + UpdatesToZero(((s * 4) - s) \div 4)

\* C34: while the status stays OFF the filtered speed strictly decreases on
\* every update while it is non-zero, reaches zero after a bounded number of
\* updates (at most 35) and then stays zero, from any reachable speed
C34_SpeedDecaysInOff ==
    /\ tractor.status = ENGINE_OFF =>
          /\ tractor.engine_speed_setpoint = 0
          /\ UpdatesToZero(tractor.engine_speed) <= 35
    /\ (Updated /\ prev.tractor.status = ENGINE_OFF
                /\ tractor.status = ENGINE_OFF) =>
          /\ prev.tractor.engine_speed > 0
                => tractor.engine_speed < prev.tractor.engine_speed
          /\ prev.tractor.engine_speed = 0 => tractor.engine_speed = 0
          /\ UpdatesToZero(prev.tractor.engine_speed)
                = UpdatesToZero(tractor.engine_speed)
                  + (IF prev.tractor.engine_speed > 0 THEN 1 ELSE 0)

\* the update that takes the speed to zero, after RUNNING
C34_Witness ==
    /\ Updated
    /\ prev.tractor.status = ENGINE_OFF
    /\ tractor.status = ENGINE_OFF
    /\ tractor.cranking_counter > CRANKING_MINIMUM_TIME
    /\ prev.tractor.engine_speed = 1
    /\ tractor.engine_speed = 0

\* the first update in OFF after RUNNING at the highest setpoint
C34_WitnessFast ==
    /\ Updated
    /\ prev.tractor.status = ENGINE_OFF
    /\ tractor.status = ENGINE_OFF
    /\ prev.tractor.engine_speed > 160 * 256
    /\ tractor.engine_speed < prev.tractor.engine_speed

(***************************************************************************)
(* Claims about the end of the songs.                                      *)
(***************************************************************************)
\* the number of sounding notes and of rests of a song
SoundingNotes(song) == Cardinality({i \in 1..song.size : song.note[i] # 0})
Rests(song) == Cardinality({i \in 1..song.size : song.note[i] = 0})

\* C35: a song started by audio_play_horn_song ends, if no other song is
\* requested, after 4 * (number of sounding notes) + (number of rests) + 1
\* calls of audio_horn_manager (13 for the single honk, 18 for the double
\* honk, 78 for Dixie); the current increment is then 0 and playing stays
\* false until the next valid audio_play_horn_song
C35_SongEnds ==
    LET length == (4 * SoundingNotes(horn.song)) + Rests(horn.song) + 1
    IN  /\ horn.playing => notehist.ticks < length
        /\ (~horn.playing /\ horn.song.size > 0) =>
              /\ notehist.ticks = length
              /\ horn.index_increment = 0
              /\ length = CASE horn.song = SONG_LIBRARY[SONG_SINGLE_HONK + 1]
                                  -> 13
                            [] horn.song = SONG_LIBRARY[SONG_DOUBLE_HONK + 1]
                                  -> 18
                            [] horn.song = SONG_LIBRARY[SONG_DIXIE + 1] -> 78
        /\ (~prev.horn.playing /\ horn.playing) =>
              /\ Called("play")
              /\ last_op[2] < SONG_COUNT

\* the horn tick that ends the Dixie song
C35_Witness ==
    /\ Called("tick")
    /\ prev.horn.playing
    /\ ~horn.playing
    /\ horn.song = SONG_LIBRARY[SONG_DIXIE + 1]
    /\ notehist.ticks = 78

\* a horn tick after the end of the double honk
C35_WitnessAfter ==
    /\ Called("tick")
    /\ ~prev.horn.playing
    /\ ~horn.playing
    /\ horn.song = SONG_LIBRARY[SONG_DOUBLE_HONK + 1]
    /\ notehist.ticks = 18

\* whether the Dixie song is playing on the horn structure h
DixiePlaying(h) == h.playing /\ h.song = SONG_LIBRARY[SONG_DIXIE + 1]

\* C36: a Dixie song started by tractor_play_dixie_song is never cut short
\* by an automatic honk: the call resets the horn cycle counter and the
\* counter advances at most once per update, so that no automatic honk
\* starts before the Dixie song has ended
C36_DixieNotCutShort ==
    /\ (Called("dixie") /\ honk = <<SONG_DIXIE>>) =>
          /\ tractor.horn_counter = 0
          /\ DixiePlaying(horn)
    /\ Updated =>
          /\ tractor.horn_counter <= prev.tractor.horn_counter + 1
          /\ honk # <<>> => ~DixiePlaying(prev.horn)
          /\ DixiePlaying(prev.horn) =>
                /\ horn.song = prev.horn.song
                /\ horn.current_note >= prev.horn.current_note
    /\ DixiePlaying(horn) =>
          /\ tractor.horn_counter <= notehist.ticks
          /\ notehist.ticks < 78

\* the update that ends a Dixie song started late in the horn cycle
C36_Witness ==
    /\ Updated
    /\ DixiePlaying(prev.horn)
    /\ ~horn.playing
    /\ notehist.ticks = 78
    /\ tractor.horn_counter = 78

\* a Dixie song is started one update before an automatic honk was due
C36_WitnessBeforeHonk ==
    /\ Called("dixie")
    /\ honk = <<SONG_DIXIE>>
    /\ prev.tractor.horn_counter = (HORN_CYCLE \div 2) - 1
    /\ tractor.horn_counter = 0

(***************************************************************************)
(* Claims about the LED outside RUNNING and about the horn button.         *)
(***************************************************************************)
\* C37: the LED value does not depend on the engine status:
\* tractor_update_model returns true while the status is OFF or CRANKING
\* after a RUNNING to OFF transition that froze the blink counter at an odd
\* value below 12, for as long as the public speed is still >= 68
C37_LedIgnoresStatus ==
    Updated =>
        /\ led_status <=> /\ tractor.led_counter % 2 = 1
                          /\ tractor.led_counter < 12
                          /\ tractor.engine_speed \div 256 >= 68
        /\ (prev.tractor.status = ENGINE_RUNNING
            /\ tractor.status = ENGINE_OFF) =>
              /\ tractor.led_counter = prev.tractor.led_counter
              /\ tractor.engine_speed = prev.tractor.engine_speed
        /\ (prev.tractor.status # ENGINE_RUNNING
            /\ tractor.status # ENGINE_RUNNING) =>
              tractor.led_counter = prev.tractor.led_counter
        /\ (led_status /\ tractor.status # ENGINE_RUNNING) => calls >= 3

\* an update returns true and leaves the status OFF
C37_Witness ==
    /\ Updated
    /\ led_status
    /\ prev.tractor.status = ENGINE_OFF
    /\ tractor.status = ENGINE_OFF

\* an update returns true and leaves the status CRANKING
C37_WitnessCranking ==
    /\ Updated
    /\ led_status
    /\ tractor.status = ENGINE_CRANKING

\* an update in OFF returns false: the speed has decayed below 68
C37_WitnessDecayed ==
    /\ Updated
    /\ ~led_status
    /\ tractor.status = ENGINE_OFF
    /\ tractor.led_counter = 11
    /\ prev.tractor.engine_speed \div 256 >= 68

\* C38: within one model-rate block the HORN click is read and cleared, and
\* tractor_play_dixie_song is called, before the ignition position is
\* refreshed from the same button sample: the gate of the Dixie song tests
\* the ignition position of the previous block, and a HORN click decoded in
\* the first block after the buttons leave the no-button band is consumed
\* without starting the song
C38_ClickBeforeIgnition ==
    Called("main_buttons") =>
        LET sample == button_new_level(last_op[2])
            edge   == /\ BitOf(before.button.level, BUTTON_HORN) = 0
                      /\ BitOf(sample, BUTTON_HORN) = 1
            click  == edge \/ BitOf(before.button.clicked, BUTTON_HORN) = 1
        IN  /\ result[1] = click
            /\ BitOf(button.clicked, BUTTON_HORN) = 0
            /\ honk = <<SONG_DIXIE>>
                  <=> (click /\ prev.tractor.ignition_position # IGNITION_OFF)
            /\ honk = <<>> =>
                  /\ horn = prev.horn
                  /\ tractor.horn_counter = prev.tractor.horn_counter
            /\ tractor.ignition_position =
                  IF BitOf(sample, BUTTON_START) = 1 THEN IGNITION_START
                  ELSE IF BitOf(sample, BUTTON_ON) = 1 THEN IGNITION_ON
                  ELSE IGNITION_OFF

\* the buttons leave the no-button band with HORN pressed: the click is
\* consumed, no song is started and the ignition position becomes START
C38_Witness ==
    /\ Called("main_buttons")
    /\ before.button.level = 0
    /\ result[1]
    /\ prev.tractor.ignition_position = IGNITION_OFF
    /\ tractor.ignition_position = IGNITION_START
    /\ honk = <<>>
    /\ ~horn.playing
    /\ BitOf(button.clicked, BUTTON_HORN) = 0

\* HORN is pressed one block after START: the song is started
C38_WitnessSong ==
    /\ Called("main_buttons")
    /\ result[1]
    /\ prev.tractor.ignition_position = IGNITION_START
    /\ honk = <<SONG_DIXIE>>
    /\ horn.playing

(***************************************************************************)
(* Claims about the reads of the wavetables and about the sample flag.     *)
(***************************************************************************)
\* C39: every wavetable read of audio_get_next_sample uses an index inside
\* the table, 0 <= index < track length; the reads at index + 1 never address
\* index = TRACTOR_HORN_SIZE (or ENGINE_RUNNING_SIZE) when the phase is in
\* the last slot
C39_ReadsWithinTables ==
    Called("sample") =>
        /\ \A i \in result[1].engine_reads :
              0 <= i /\ i < ENGINE_RUNNING_SIZE(wavetable)
        /\ \A i \in result[1].horn_reads :
              0 <= i /\ i < TRACTOR_HORN_SIZE(wavetable)

\* the part of C39 that concerns the engine track
C39_EngineReadsWithinTable ==
    Called("sample") =>
        \A i \in result[1].engine_reads :
            0 <= i /\ i < ENGINE_RUNNING_SIZE(wavetable)

\* the horn phase is in the last slot at an offset of 16 or more
C39_LastSlot ==
    /\ Called("sample")
    /\ Sounding(horn)
    /\ Shr(sample_index.horn, 6) = TRACTOR_HORN_SIZE(wavetable) - 1
    /\ sample_index.horn % 64 >= 16
    /\ TRACTOR_HORN_SIZE(wavetable) \in result[1].horn_reads

\* C40: for every interleaving of the timer callback with the main loop the
\* main loop never computes more audio samples than the callback has fired:
\* a pass starts only after the callback has set update_audio_sample since
\* the main loop last cleared it, and the flag is cleared only by the main
\* loop, once, at the end of the pass
C40_SamplesFollowFirings ==
    /\ schedhist.samples <= schedhist.fired
    /\ schedhist.passes <= schedhist.fired
    /\ schedhist.fired
          = schedhist.samples + schedhist.owed + schedhist.lost
    /\ main.pc = "sample" =>
          /\ shared.update_audio_sample
          /\ schedhist.owed >= 1
    /\ schedhist.owed >= 0
    /\ ~shared.update_audio_sample =>
          /\ schedhist.owed = 0
          /\ main.pc = "wait"
    /\ schedhist.clears
          = schedhist.passes - (IF main.pc = "wait" THEN 0 ELSE 1)

\* the second pass has computed its sample: two firings, two samples
C40_Witness ==
    /\ Called("main_sample")
    /\ schedhist.fired = 2
    /\ schedhist.samples = 2
    /\ schedhist.clears = 1

\* the main loop is behind: three firings, two samples, back at the wait
C40_WitnessBehind ==
    /\ Called("main_clear")
    /\ schedhist.fired = 3
    /\ schedhist.samples = 2
    /\ ~shared.update_audio_sample

====
